---- MODULE Spec2Model ----
(***************************************************************************)
(* A model of the debug bridge of src/src/extension.ts: the port           *)
(* allocator and discovery publisher (startExpressServer, writePortInfo,   *)
(* deactivate), the debug context aggregator (captureDebugContext) and the *)
(* eight HTTP handlers of setupAPIRoutes.                                  *)
(*                                                                         *)
(* Request bodies are JSON objects (express.json()); an absent field is    *)
(* Missing.                                                                *)
(*                                                                         *)
(* The editor host (vscode.debug, vscode.commands) and the debuggee are    *)
(* the environment.  Every `await` of the source is a point where other    *)
(* handlers and the host may run, so each action below is one synchronous  *)
(* run of JavaScript between two awaits.                                   *)
(***************************************************************************)
EXTENDS Integers, Sequences, FiniteSets, Bags, TLC

VARIABLES
    \* ---- the environment of the port allocator
    occupied,         \* candidate ports on which listen() fails (held by others)
    descriptor,       \* content of <tmpdir>/vscode-claude-debug-port.json
    fsWritable,       \* the temporary directory accepts a write or an unlink
    \* ---- module-level state of extension.ts (lines 21-24) and startExpressServer
    startPc,          \* "loop": awaiting listen() on PORTS[portIdx]; "done": returned
    portIdx,          \* position of the for-of loop in PORTS
    serverInstance,   \* the http.Server returned by listen (its port), 0 = undefined
    currentPort,      \* 0 = never assigned
    listening,        \* ports on which this instance holds an open listener
    routesRegistered, \* setupAPIRoutes has run
    errorShown,       \* calls of vscode.window.showErrorMessage
    attempts,         \* history: the ports listen() was called on, in order
    descriptorWrites, \* history: successful writes of the descriptor file
    overwrote,        \* history: a write replaced a descriptor that was there
    \* ---- deactivate
    deactivations,    \* history: calls of deactivate
    closeCalls,       \* history: calls of serverInstance.close()
    deleteFailed,     \* history: unlinkSync threw and the catch logged it
    raised,           \* history: an exception left deactivate
    \* ---- the output channel
    listenerLog,      \* the line a debug listener appended last, "" = none yet
    \* ---- the editor host (vscode.debug): the external collaborator
    session,          \* vscode.debug.activeDebugSession, NoSession = undefined
    paused,           \* 0: the debuggee runs; i: it is stopped in PauseStates[i]
    breakpoints,      \* vscode.debug.breakpoints, in the host's order
    \* ---- the HTTP requests in flight, with the detached work they leave
    \*      behind: a bag of slots (handler invocations have no identity)
    slots

shutVars == <<deactivations, closeCalls, deleteFailed, raised>>

serverVars == <<occupied, descriptor, fsWritable, startPc, portIdx, serverInstance, currentPort,
                listening, routesRegistered, errorShown, attempts, descriptorWrites,
                overwrote, shutVars>>

startVars == <<serverVars, listenerLog>>

hostVars == <<session, paused, breakpoints>>

vars == <<startVars, hostVars, slots>>

----------------------------------------------------------------------------
(* Port allocator and discovery publisher                                  *)

\* extension.ts:52
PORTS == <<3001, 3002, 3003, 3004, 3005, 3006, 3007, 3008, 3009, 3010>>

PortSet == {PORTS[i] : i \in 1..Len(PORTS)}

\* extension.ts:98: process.pid of this extension host
MyPid == 4242

\* The process that wrote a stale descriptor.
OtherPid == MyPid + 1

NoFile == [port |-> 0, pid |-> 0, status |-> "absent"]

\* A descriptor left behind by an earlier or another instance.
StaleDescriptor == [port |-> PORTS[Len(PORTS)], pid |-> OtherPid, status |-> "running"]

\* extension.ts:96-101, mutated: the first candidate is recorded, not the
\* port that was bound
PortInfo_FirstCandidate(port) == [port |-> PORTS[1], pid |-> MyPid, status |-> "running"]

\* extension.ts:96-101, the object that is serialized (the timestamp is left out)
PortInfo(port) == [port |-> port, pid |-> MyPid, status |-> "running"]

\* extension.ts:103-111, mutated: a descriptor that is there is left alone
WritePortInfo_KeepsExisting(port, fsOk, old) ==
    IF fsOk /\ old = NoFile THEN PortInfo(port) ELSE old

\* extension.ts:103-111: writeFileSync overwrites; a failure is caught and logged
WritePortInfo(port, fsOk, old) == IF fsOk THEN PortInfo(port) ELSE old

\* The text of the descriptor file, as a sequence of tokens: punctuation,
\* white space ("sp", "nl"), quoted strings and runs of digits.
Tok(t, s, n) == [t |-> t, s |-> s, n |-> n]

Punct(s) == Tok("punct", s, 0)

Space == Tok("sp", " ", 0)

Newline == Tok("nl", "", 0)

Str(s) == Tok("str", s, 0)

Num(n) == Tok("num", "", n)

\* One member of a JSON object as JSON.stringify(value, null, 2) prints it:
\* the indentation, the quoted key, a colon, ONE SPACE, the value, and a
\* comma unless the member is the last.
Member(key, value, last) ==
    <<Space, Space, Str(key), Punct(":"), Space, value>>
        \o (IF last THEN <<>> ELSE <<Punct(",")>>) \o <<Newline>>

\* extension.ts:107: JSON.stringify(portInfo, null, 2)
Stringify(info) ==
    <<Punct("{"), Newline>>
        \o Member("port", Num(info.port), FALSE)
        \o Member("pid", Num(info.pid), FALSE)
        \o Member("status", Str(info.status), TRUE)
        \o <<Punct("}")>>

\* part_002:10, grep -o '"port":[0-9]*': every occurrence of "port": in the
\* text, together with the digits that follow the colon IMMEDIATELY (none
\* is a match too)
GrepPortMember(text) ==
    LET hits == {i \in 1..(Len(text) - 1) :
                    text[i] = Str("port") /\ text[i + 1] = Punct(":")}
        At(k) == CHOOSE i \in hits : Cardinality({j \in hits : j < i}) = k - 1
    IN  [k \in 1..Cardinality(hits) |->
            IF At(k) + 2 <= Len(text) /\ text[At(k) + 2].t = "num"
            THEN <<text[At(k)], text[At(k) + 1], text[At(k) + 2]>>
            ELSE <<text[At(k)], text[At(k) + 1]>>]

\* part_002:10, grep -o '[0-9]*' on the lines of the first grep: the runs of
\* digits (empty matches are not printed); <<>> is the empty string
GrepDigits(matches) ==
    LET withDigits == {k \in 1..Len(matches) : Len(matches[k]) = 3} IN
    IF withDigits = {} THEN <<>>
    ELSE <<matches[CHOOSE k \in withDigits : \A j \in withDigits : k <= j][3].n>>

\* part_002:13, the port the script falls back to
DefaultPort == 3001

\* part_002:9-15: the port the discovery script ends up with (<<>>: the
\* empty string), given the content of the descriptor file
DiscoverPort(file) ==
    IF file # NoFile THEN GrepDigits(GrepPortMember(Stringify(file)))
    ELSE <<DefaultPort>>

\* extension.ts:56-59: the promise resolves when the listener is open and
\* rejects on the server's 'error' event (EADDRINUSE, EACCES)
ListenSucceeds(port) == port \notin occupied /\ port \notin listening

\* extension.ts:81-85, mutated: the `break` is missing, the loop goes on
Break_Missing(idx) ==
    [pc |-> IF idx = Len(PORTS) THEN "done" ELSE "loop", idx |-> idx + 1]

\* extension.ts:81: `break` leaves the loop; nothing awaits after it
Break(idx) == [pc |-> "done", idx |-> idx]

\* extension.ts:82-84, mutated: the first failure ends the loop
Continue_GivesUp(idx) == [pc |-> "done", idx |-> idx + 1]

\* extension.ts:82-84: `continue`, and the loop ends after the last candidate
Continue(idx) ==
    [pc |-> IF idx = Len(PORTS) THEN "done" ELSE "loop", idx |-> idx + 1]

\* extension.ts:87, mutated: the failure is never reported
NoInstance_Never(inst) == FALSE

\* extension.ts:87: `if (!serverInstance)`
NoInstance(inst) == inst = 0

\* extension.ts:54-89, mutated: writePortInfo has no try/catch of its own, so
\* a failed write is caught by the loop and the next candidate is tried
TryPort_WriteFailureRethrown ==
    /\ startPc = "loop"
    /\ LET port == PORTS[portIdx] IN
       /\ attempts' = Append(attempts, port)
       /\ IF ListenSucceeds(port) /\ fsWritable
          THEN LET nxt == Break(portIdx) IN
               /\ serverInstance' = port
               /\ listening' = listening \cup {port}
               /\ currentPort' = port
               /\ descriptor' = PortInfo(port)
               /\ descriptorWrites' = descriptorWrites + 1
               /\ overwrote' = (overwrote \/ descriptor # NoFile)
               /\ routesRegistered' = TRUE
               /\ startPc' = nxt.pc
               /\ portIdx' = nxt.idx
               /\ errorShown' = errorShown
          ELSE LET nxt == Continue(portIdx)
                   bound == ListenSucceeds(port)
               IN
               /\ serverInstance' = IF bound THEN port ELSE serverInstance
               /\ listening' = IF bound THEN listening \cup {port} ELSE listening
               /\ currentPort' = IF bound THEN port ELSE currentPort
               /\ startPc' = nxt.pc
               /\ portIdx' = nxt.idx
               /\ errorShown' = IF nxt.pc = "done" /\ NoInstance(serverInstance')
                                THEN errorShown + 1 ELSE errorShown
               /\ UNCHANGED <<descriptor, descriptorWrites, overwrote, routesRegistered>>
    /\ UNCHANGED <<occupied, fsWritable, shutVars, listenerLog, hostVars, slots>>

\* extension.ts:54-89: one iteration of the loop, from the call of listen()
\* to the next await or to the function's return.
TryPort ==
    /\ startPc = "loop"
    /\ LET port == PORTS[portIdx] IN
       /\ attempts' = Append(attempts, port)
       /\ IF ListenSucceeds(port)
          THEN LET nxt == Break(portIdx) IN
               /\ serverInstance' = port
               /\ listening' = listening \cup {port}
               /\ currentPort' = port
               /\ descriptor' = WritePortInfo(port, fsWritable, descriptor)
               /\ descriptorWrites' = descriptorWrites + (IF fsWritable THEN 1 ELSE 0)
               /\ overwrote' = (overwrote \/ (fsWritable /\ descriptor # NoFile))
               /\ routesRegistered' = TRUE
               /\ startPc' = nxt.pc
               /\ portIdx' = nxt.idx
               /\ errorShown' = errorShown
          ELSE LET nxt == Continue(portIdx) IN
               /\ startPc' = nxt.pc
               /\ portIdx' = nxt.idx
               /\ errorShown' = IF nxt.pc = "done" /\ NoInstance(serverInstance)
                                THEN errorShown + 1 ELSE errorShown
               /\ UNCHANGED <<serverInstance, listening, currentPort, descriptor,
                              descriptorWrites, overwrote, routesRegistered>>
    /\ UNCHANGED <<occupied, fsWritable, shutVars, listenerLog, hostVars, slots>>

\* The calls between the bind and the `break` that may throw inside the try
\* block: the logging and status-bar calls of extension.ts:63-73, which come
\* before writePortInfo, and setupAPIRoutes (extension.ts:79), which comes
\* after it.
ThrowPoints == {"statusBar", "routes"}

\* extension.ts:54-85 when listen() has resolved and a later call of the try
\* block throws at `at`: serverInstance and currentPort are assigned already
\* (extension.ts:56-60), the catch block runs `continue`.
TryPortThrows(at) ==
    /\ startPc = "loop"
    /\ LET port == PORTS[portIdx]
           nxt  == Continue(portIdx)
           written == at = "routes"
       IN
       /\ ListenSucceeds(port)
       /\ attempts' = Append(attempts, port)
       /\ serverInstance' = port
       /\ listening' = listening \cup {port}
       /\ currentPort' = port
       /\ descriptor' = IF written THEN WritePortInfo(port, fsWritable, descriptor)
                         ELSE descriptor
       /\ descriptorWrites' = descriptorWrites
                                 + (IF written /\ fsWritable THEN 1 ELSE 0)
       /\ overwrote' = (overwrote \/ (written /\ fsWritable /\ descriptor # NoFile))
       /\ startPc' = nxt.pc
       /\ portIdx' = nxt.idx
       /\ errorShown' = IF nxt.pc = "done" /\ NoInstance(port)
                        THEN errorShown + 1 ELSE errorShown
       /\ UNCHANGED routesRegistered
    /\ UNCHANGED <<occupied, fsWritable, shutVars, listenerLog, hostVars, slots>>

\* extension.ts:438-440: existsSync, then unlinkSync, which may throw
Unlink(file, fsOk) == IF file # NoFile /\ fsOk THEN NoFile ELSE file

\* The environment: the temporary directory becomes writable or read-only
FsChanges ==
    /\ fsWritable' = ~fsWritable
    /\ UNCHANGED <<occupied, descriptor, startPc, portIdx, serverInstance, currentPort,
                   listening, routesRegistered, errorShown, attempts, descriptorWrites,
                   overwrote, shutVars, listenerLog, hostVars, slots>>

\* How many times the host may call deactivate.
MaxDeactivations == 2

\* extension.ts:439: unlinkSync throws when the file is there and the
\* directory refuses the removal
UnlinkThrows(file, fsOk) == file # NoFile /\ ~fsOk

\* extension.ts:431: http.Server.close() on a server that is not listening
\* (never opened, or closed before) reports ERR_SERVER_NOT_RUNNING to the
\* callback; the call passes none and nothing is thrown
CloseThrows(inst, open) == FALSE

\* extension.ts:441-443, mutated: no catch around the removal
Escapes_NoCatch(threw) == threw

\* extension.ts:441-443: the catch block logs and does not rethrow
Escapes(threw) == FALSE

\* extension.ts:428-444: close the listener if one was ever stored, then
\* unlink the descriptor file if it exists (a failure is caught and logged).
Deactivate ==
    /\ deactivations < MaxDeactivations
    /\ deactivations' = deactivations + 1
    /\ closeCalls' = closeCalls + (IF serverInstance # 0 THEN 1 ELSE 0)
    /\ listening' = IF serverInstance # 0 THEN listening \ {serverInstance}
                    ELSE listening
    /\ descriptor' = Unlink(descriptor, fsWritable)
    /\ deleteFailed' = (deleteFailed \/ UnlinkThrows(descriptor, fsWritable))
    /\ raised' = (\/ raised
                  \/ (serverInstance # 0 /\ CloseThrows(serverInstance, listening))
                  \/ Escapes(UnlinkThrows(descriptor, fsWritable)))
    /\ UNCHANGED <<occupied, fsWritable, startPc, portIdx, serverInstance, currentPort,
                   routesRegistered, errorShown, attempts, descriptorWrites, overwrote,
                   listenerLog, hostVars, slots>>

----------------------------------------------------------------------------
(* The editor host and the debuggee (external collaborator)                *)

\* How many distinct debug sessions the host may hand out.
MaxSessions == 1

NoSession == [id |-> 0, name |-> "", type |-> ""]

SessionOf(i) ==
    [id |-> i,
     name |-> IF i = 1 THEN "Launch Program" ELSE "Attach to Process",
     type |-> IF i % 2 = 1 THEN "node" ELSE "pwa-node"]

Sessions == {SessionOf(i) : i \in 1..MaxSessions}

\* A DAP stack frame, scope and variable.  path = NoPath: the frame has no source.
NoPath == "<no source>"

Frame(id, name, line, column, path) ==
    [id |-> id, name |-> name, line |-> line, column |-> column, path |-> path]

Scope(name, ref) == [name |-> name, variablesReference |-> ref]

Variable(name, value, type) == [name |-> name, value |-> value, type |-> type]

\* The places the debuggee can be stopped at.  frames: top of stack first;
\* scopes: by frame id; variables: by variablesReference.  Ids are meaningful
\* within one entry only: frame id 16 and reference 1 occur in entries 1 and
\* 4 and name different things there.
PauseStates == <<
    \* one frame, one scope, one variable
    [frames    |-> <<Frame(16, "main", 42, 5, "/a.js")>>,
     scopes    |-> (16 :> <<Scope("Local", 1)>>),
     variables |-> (1 :> <<Variable("data", "{...}", "Object")>>)],
    \* a stop that reports no frames
    [frames    |-> <<>>,
     scopes    |-> [f \in {} |-> <<>>],
     variables |-> [r \in {} |-> <<>>]],
    \* the top frame has no scopes; the frame below has one
    [frames    |-> <<Frame(20, "anonymous", 3, 1, "/c.js"),
                     Frame(21, "main", 9, 2, "/a.js")>>,
     scopes    |-> (20 :> <<>> @@ 21 :> <<Scope("Local", 4)>>),
     variables |-> (4 :> <<Variable("k", "1", "number")>>)],
    \* two frames, the top one without source, with two scopes and two variables
    [frames    |-> <<Frame(17, "helper", 7, 3, NoPath),
                     Frame(16, "main", 43, 5, "/a.js")>>,
     scopes    |-> (17 :> <<Scope("Local", 2), Scope("Global", 3)>>
                    @@ 16 :> <<Scope("Closure", 1)>>),
     variables |-> (2 :> <<Variable("x", "1", "number"), Variable("y", "a", "string")>>
                    @@ 3 :> <<>>
                    @@ 1 :> <<Variable("z", "0", "number")>>)] >>

PauseIds == 1..Len(PauseStates)

\* The debuggee has one thread, with id 1.
DebuggeeThreads == {1}

DapOk(items) == [ok |-> TRUE, err |-> "", items |-> items]

DapError(msg) == [ok |-> FALSE, err |-> msg, items |-> <<>>]

\* The response body of an evaluate request; its type is optional.
EvalOk(result, type) ==
    [ok |-> TRUE, err |-> "", items |-> <<>>, result |-> result, type |-> type]

\* What the debuggee makes of an expression, running or stopped: x is a
\* number in the fourth stop, a value without declared type in the first,
\* and not defined elsewhere.
EvaluateInDebuggee(expression) ==
    IF expression = "x" /\ paused = 4 THEN EvalOk("1", "number")
    ELSE IF expression = "x" /\ paused = 1 THEN EvalOk("undefined", "<undefined>")
    ELSE DapError("ReferenceError: " \o expression \o " is not defined")

\* session.customRequest(command, arg) on the handle h, as the host answers it
\* in its current state: the request is rejected when the session is gone,
\* and, but for evaluate, when the debuggee runs and when the id is not one of
\* the current stop.
CustomRequest(h, command, arg) ==
    IF h # session THEN DapError("Session is not active")
    ELSE IF command = "evaluate" THEN EvaluateInDebuggee(arg.expression)
    ELSE IF paused = 0 THEN DapError("Thread is not paused")
    ELSE LET ps == PauseStates[paused] IN
         CASE command = "stackTrace" ->
                IF arg \in DebuggeeThreads THEN DapOk(ps.frames)
                ELSE DapError("Unknown thread")
           [] command = "scopes" ->
                IF arg \in DOMAIN ps.scopes THEN DapOk(ps.scopes[arg])
                ELSE DapError("Unknown frame id")
           [] command = "variables" ->
                IF arg \in DOMAIN ps.variables THEN DapOk(ps.variables[arg])
                ELSE DapError("Unknown variablesReference")
           [] OTHER -> DapError("Unknown request")

\* vscode.commands.executeCommand(command), when it resolves: the host states
\* the command may leave behind.  Without a session, and for a step or a
\* continue of a running debuggee, the host command is a no-op.
CommandOutcomes(command) ==
    LET same == {[session |-> session, paused |-> paused]} IN
    CASE command \in {"workbench.action.debug.stepOver",
                      "workbench.action.debug.stepInto",
                      "workbench.action.debug.stepOut",
                      "workbench.action.debug.continue"} ->
            IF session # NoSession /\ paused # 0
            THEN {[session |-> session, paused |-> 0]} ELSE same
      [] command = "workbench.action.debug.pause" ->
            IF session # NoSession /\ paused = 0
            THEN {[session |-> session, paused |-> i] : i \in PauseIds} ELSE same
      [] command = "workbench.action.debug.stop" ->
            {[session |-> NoSession, paused |-> 0]}
      [] command = "workbench.action.debug.restart" ->
            IF session # NoSession
            THEN {[session |-> s, paused |-> 0] : s \in Sessions} ELSE same
      [] command = "workbench.action.debug.start" ->
            IF session = NoSession
            THEN {[session |-> s, paused |-> 0] : s \in Sessions} ELSE same
      [] OTHER -> same

CommandFailedMsg == "command failed"

\* How many breakpoints the host holds at most.
MaxBreakpoints == 2

\* The paths of this model: absolute ones, and ones relative to nothing.
AbsoluteFiles == {"/a.js"}

RelativeFiles == {"a.js"}

\* vscode.Uri.file(path) followed by uri.fsPath, on a POSIX host: a path that
\* does not start with a slash gets one.
UriFile(path) == IF path \in RelativeFiles THEN "/" \o path ELSE path

\* new vscode.Position(line, 0) throws on a negative line.
IllegalLineMsg == "Illegal argument: line must be non-negative"

\* The request a breakpoint of the host's list was set by (history).
NoOrigin == [file |-> "", line |-> 0]

\* The host tells breakpoint objects by their id.  Here the id of an object
\* the host holds is its position in the list, and an object constructed now
\* has an id that no breakpoint of the list has.
FreshId(bps) == Len(bps) + 1

\* The list with the breakpoint at position k gone.
Dropped(bps, k) ==
    LET rest == SubSeq(bps, 1, k - 1) \o SubSeq(bps, k + 1, Len(bps))
    IN  [i \in 1..Len(rest) |-> [rest[i] EXCEPT !.id = i]]

\* new vscode.SourceBreakpoint(new vscode.Location(uri, position)): a new
\* object, enabled; line is zero-based.
SourceBreakpoint(id, fsPath, line) ==
    [id |-> id, type |-> "source", file |-> fsPath, line |-> line, enabled |-> TRUE,
     origin |-> NoOrigin]

\* A breakpoint that is no SourceBreakpoint (a function breakpoint), disabled.
FunctionBreakpoint(id) ==
    [id |-> id, type |-> "function", file |-> "", line |-> 0, enabled |-> FALSE,
     origin |-> NoOrigin]

\* vscode.debug.addBreakpoints([bp]): the host appends the objects it does not
\* hold yet.
AddBreakpoints(bps, bp) ==
    IF \E k \in 1..Len(bps) : bps[k].id = bp.id THEN bps ELSE Append(bps, bp)

\* vscode.debug.removeBreakpoints([bp]): the host drops the objects it holds,
\* which it tells by their id, not by their location.
RemoveBreakpoints(bps, bp) ==
    IF \E k \in 1..Len(bps) : bps[k].id = bp.id
    THEN Dropped(bps, CHOOSE k \in 1..Len(bps) : bps[k].id = bp.id)
    ELSE bps

----------------------------------------------------------------------------
(* Requests in flight                                                      *)

\* How many requests (each with the follow-up work it leaves behind) are in
\* flight at once.  The host acts between any two steps of a request.
MaxInflight == 1

\* A body field that is absent (JavaScript undefined).
Missing == "<undefined>"

StepActions == {"over", "into", "out"}

ControlActions == {"continue", "pause", "stop", "restart", "start"}

\* The values a caller may send as `action`: the valid ones, one that is
\* valid for the other endpoint only, one valid nowhere, and none.
StepInputs == StepActions \cup {"continue", "sideways", Missing}

ControlInputs == ControlActions \cup {"over", "sideways", Missing}

NoBody == [none |-> TRUE]

NoResponse == [status |-> 0, error |-> "", body |-> NoBody]

\* res.status(code).json({ error: msg })
ErrorResponse(code, msg) == [status |-> code, error |-> msg, body |-> NoBody]

\* res.json(body)
JsonResponse(body) == [status |-> 200, error |-> "", body |-> body]

\* A request slot.  kind, action, file, line, expression, context, command,
\* message, session, stackResp and scopesResp are the handler's locals; resp
\* is the HTTP response sent and sent the number of responses sent; dap (the requests of a capture), evals (the
\* evaluate requests, with the host's answer), commands, bpCalls, timers,
\* outOfRange and log are the history of its calls;
\* sessionless: no session was active at any step of the slot's work so far;
\* fresh: the host has not changed since its capture began;
\* input: the action field of a step request as it was received;
\* bpDelta: by how many breakpoints the request changed the host's list;
\* seen: the breakpoint list the handler read;
\* known: the host held a source breakpoint at the request's location;
\* fresh (breakpoint requests): the host's list has not changed since;
\* bpChanged: the handler left the host's breakpoint list another one.
IdleSlot ==
    [kind |-> "none", pc |-> "idle", action |-> "", file |-> "", line |-> <<>>,
     command |-> "", message |-> "",
     session |-> NoSession, stackResp |-> <<>>, scopesResp |-> <<>>,
     expression |-> "", context |-> "",
     resp |-> NoResponse, dap |-> <<>>, evals |-> <<>>, commands |-> <<>>,
     bpCalls |-> <<>>, timers |-> 0,
     outOfRange |-> FALSE, fresh |-> FALSE, sessionless |-> FALSE, log |-> <<>>,
     seen |-> <<>>, known |-> FALSE, bpChanged |-> FALSE, sent |-> 0, bpDelta |-> 0, input |-> ""]

NewSlot(kind) == [IdleSlot EXCEPT !.kind = kind]

\* The server accepts requests: it listens and its routes are registered.
ServerUp == routesRegistered /\ serverInstance \in listening

\* The slots in flight.
InFlight == BagToSet(slots)

\* There is room for one more request.
HasRoom == BagCardinality(slots) < MaxInflight

\* The bag with slot s gone.
Without(s) == slots (-) SetToBag({s})

\* The host changed: no capture in flight holds a view of the current stop.
Stale(s) ==
    IF s.kind \in {"context", "step"}
    THEN [s EXCEPT !.fresh = FALSE]
    ELSE s

HostChanged(ss) == BagOfAll(Stale, ss)

\* The host's breakpoint list changed: no breakpoint request in flight has
\* seen or left the current one.
StaleList(s) ==
    IF s.kind \in {"breakpoint", "breakpoints", "status"}
    THEN [s EXCEPT !.fresh = FALSE] ELSE s

ListChanged(ss) == BagOfAll(StaleList, ss)

----------------------------------------------------------------------------
(* Debug context aggregator: captureDebugContext                           *)

\* extension.ts:349
ThreadId == 1

NoSessionMsg == "No active debug session"

\* The TypeError of reading a property of stackFrames[0] or scopes[0] when
\* the array is empty and the element is undefined.
TypeErrorMsg(property) == "Cannot read properties of undefined (reading '" \o property \o "')"

\* One call of session.customRequest, and how it ended (n: items returned).
Issue(s, command, arg) ==
    [s EXCEPT !.dap = Append(@, [command |-> command, arg |-> arg,
                                 state |-> "pending", n |-> 0])]

Answered(s, r) ==
    [s EXCEPT !.dap[Len(s.dap)] =
        [@ EXCEPT !.state = IF r.ok THEN "ok" ELSE "failed", !.n = Len(r.items)]]

\* The request the slot awaits, as the host answers it now.
HostAnswer(s) ==
    LET q == s.dap[Len(s.dap)] IN CustomRequest(s.session, q.command, q.arg)

\* extension.ts:354/359/362, mutated: the last element instead of element 0
First_Last(seq) == seq[Len(seq)]

\* extension.ts:354, 359, 362: element [0] of a non-empty array
First(seq) == seq[1]

\* extension.ts:181-183, mutated: the follow-up of a step answers like the
\* handler of GET /debug/context
Throw_AlwaysAnswers(s, msg) ==
    [s EXCEPT !.pc = "done", !.sent = @ + 1, !.resp = ErrorResponse(500, msg)]

\* An exception leaves captureDebugContext.  The GET /debug/context handler
\* answers 500 with its message (extension.ts:149-151); the follow-up of a
\* step only writes it to the console (extension.ts:181-183).
Throw(s, msg) ==
    IF s.kind = "context"
    THEN [s EXCEPT !.pc = "done", !.sent = @ + 1, !.resp = ErrorResponse(500, msg)]
    ELSE [s EXCEPT !.pc = "done",
                   !.log = Append(@, "console.error: Failed to capture context after step")]

\* captureDebugContext returns.  The handler sends the snapshot
\* (extension.ts:147-148); the follow-up of a step logs (extension.ts:179-180).
Return(s, context) ==
    IF s.kind = "context"
    THEN [s EXCEPT !.pc = "done", !.sent = @ + 1, !.resp = JsonResponse(context)]
    ELSE [s EXCEPT !.pc = "done", !.log = Append(@, "Step completed")]

\* extension.ts:342-350, mutated: the session check is missing
CaptureStart_NoCheck(s, active) ==
    Issue([s EXCEPT !.session = active, !.pc = "await_stackTrace", !.fresh = TRUE],
          "stackTrace", ThreadId)

\* extension.ts:341-350: up to the first await
CaptureStart(s, active) ==
    IF active = NoSession
    THEN Throw(s, NoSessionMsg)
    ELSE Issue([s EXCEPT !.session = active, !.pc = "await_stackTrace", !.fresh = TRUE,
                         !.sessionless = FALSE],
               "stackTrace", ThreadId)

\* extension.ts:348-355: the stackTrace response arrives; stackFrames[0].id is
\* evaluated, which throws a TypeError when there is no frame; else the
\* scopes request is issued
OnStackTrace(s, r) ==
    LET a == Answered(s, r) IN
    IF ~r.ok THEN Throw(a, r.err)
    ELSE IF Len(r.items) = 0
    THEN Throw([a EXCEPT !.outOfRange = TRUE], TypeErrorMsg("id"))
    ELSE Issue([a EXCEPT !.stackResp = r.items, !.pc = "await_scopes"],
               "scopes", First(r.items).id)

\* extension.ts:353-360, mutated: a failed scopes request is not thrown but
\* handed on as a response without scopes
OnScopes_FailureNotThrown(s, r) ==
    LET a == Answered(s, r) IN
    IF Len(r.items) = 0
    THEN Throw([a EXCEPT !.outOfRange = TRUE], TypeErrorMsg("variablesReference"))
    ELSE Issue([a EXCEPT !.scopesResp = r.items, !.pc = "await_variables"],
               "variables", First(r.items).variablesReference)

\* extension.ts:353-360: the scopes response arrives; scopes[0].variablesReference
\* is evaluated, which throws a TypeError when there is no scope; else the
\* variables request is issued
OnScopes(s, r) ==
    LET a == Answered(s, r) IN
    IF ~r.ok THEN Throw(a, r.err)
    ELSE IF Len(r.items) = 0
    THEN Throw([a EXCEPT !.outOfRange = TRUE], TypeErrorMsg("variablesReference"))
    ELSE Issue([a EXCEPT !.scopesResp = r.items, !.pc = "await_variables"],
               "variables", First(r.items).variablesReference)

\* extension.ts:362-379, mutated: line and column are exchanged
Snapshot_LineColumnSwapped(sess, stackFrames, scopes, variables) ==
    LET topFrame == stackFrames[1] IN
    [session      |-> [name |-> sess.name, type |-> sess.type],
     currentFrame |-> [file     |-> IF topFrame.path = NoPath THEN Missing
                                    ELSE topFrame.path,
                       function |-> topFrame.name,
                       line     |-> topFrame.column,
                       column   |-> topFrame.line],
     stack        |-> [stackFrames |-> stackFrames],
     scopes       |-> [scopes |-> scopes],
     variables    |-> [variables |-> variables]]

\* extension.ts:362-379: the snapshot (its timestamp is left out).  A frame
\* without source gives file: undefined.
Snapshot(sess, stackFrames, scopes, variables) ==
    LET topFrame == First(stackFrames) IN
    [session      |-> [name |-> sess.name, type |-> sess.type],
     currentFrame |-> [file     |-> IF topFrame.path = NoPath THEN Missing
                                    ELSE topFrame.path,
                       function |-> topFrame.name,
                       line     |-> topFrame.line,
                       column   |-> topFrame.column],
     stack        |-> [stackFrames |-> stackFrames],
     scopes       |-> [scopes |-> scopes],
     variables    |-> [variables |-> variables]]

\* extension.ts:358-388: the variables response arrives; the snapshot is
\* assembled, four lines go to the output channel, the snapshot is returned
OnVariables(s, r) ==
    LET a == Answered(s, r) IN
    IF ~r.ok THEN Throw(a, r.err)
    ELSE Return([a EXCEPT !.log = @ \o <<"Debug context captured", "File", "Line",
                                         "Variables">>],
                Snapshot(a.session, a.stackResp, a.scopesResp, r.items))

----------------------------------------------------------------------------
(* Command translator: the handlers of /debug/step and /debug/control      *)

NoCommand == ""

\* extension.ts:160-172, mutated: the default case falls through to stepOver
StepCommand_NoDefault(action) ==
    CASE action = "into" -> "workbench.action.debug.stepInto"
      [] action = "out"  -> "workbench.action.debug.stepOut"
      [] OTHER           -> "workbench.action.debug.stepOver"

\* extension.ts:160-172, mutated: the command of 'over' is that of the default
\* case, so that 'over', given or defaulted, is rejected
StepCommand_OverRejected(action) ==
    CASE action = "into" -> "workbench.action.debug.stepInto"
      [] action = "out"  -> "workbench.action.debug.stepOut"
      [] OTHER           -> NoCommand

\* extension.ts:160-172, mutated: case 'out' dispatches the command of 'over'
StepCommand_OutAsOver(action) ==
    CASE action = "over" -> "workbench.action.debug.stepOver"
      [] action = "into" -> "workbench.action.debug.stepInto"
      [] action = "out"  -> "workbench.action.debug.stepOver"
      [] OTHER           -> NoCommand

\* extension.ts:160-172: the switch; NoCommand is its default case
StepCommand(action) ==
    CASE action = "over" -> "workbench.action.debug.stepOver"
      [] action = "into" -> "workbench.action.debug.stepInto"
      [] action = "out"  -> "workbench.action.debug.stepOut"
      [] OTHER           -> NoCommand

\* extension.ts:203-226, mutated: the default case falls through to continue
ControlCommand_NoDefault(action) ==
    CASE action = "pause"    -> "workbench.action.debug.pause"
      [] action = "stop"     -> "workbench.action.debug.stop"
      [] action = "restart"  -> "workbench.action.debug.restart"
      [] action = "start"    -> "workbench.action.debug.start"
      [] OTHER               -> "workbench.action.debug.continue"

\* extension.ts:203-226: the switch; NoCommand is its default case
ControlCommand(action) ==
    CASE action = "continue" -> "workbench.action.debug.continue"
      [] action = "pause"    -> "workbench.action.debug.pause"
      [] action = "stop"     -> "workbench.action.debug.stop"
      [] action = "restart"  -> "workbench.action.debug.restart"
      [] action = "start"    -> "workbench.action.debug.start"
      [] OTHER               -> NoCommand

\* extension.ts:203-223: the message of each case
ControlMessage(action) ==
    CASE action = "continue" -> "Continued execution"
      [] action = "pause"    -> "Paused execution"
      [] action = "stop"     -> "Stopped debugging"
      [] action = "restart"  -> "Restarted debugging"
      [] action = "start"    -> "Started debugging"
      [] OTHER               -> ""

\* extension.ts:174, 228: executeCommand is called and awaited
Execute_Twice(s, command) ==
    [s EXCEPT !.command = command, !.pc = "await_command",
              !.commands = @ \o <<command, command>>]

Execute(s, command) ==
    [s EXCEPT !.command = command, !.pc = "await_command",
              !.commands = Append(@, command)]

\* extension.ts:155-174, mutated: the handler requires an active session
StepHandler_SessionCheck(input, noSession) ==
    LET action  == IF input = Missing THEN "over" ELSE input
        command == StepCommand(action)
        s == [NewSlot("step") EXCEPT !.action = action, !.sessionless = noSession,
                                     !.input = input]
    IN  IF command = NoCommand
        THEN [s EXCEPT !.pc = "done",
                       !.sent = @ + 1, !.resp = ErrorResponse(400, "Invalid step action. Use: over, into, out")]
        ELSE IF noSession
        THEN [s EXCEPT !.pc = "done", !.sent = @ + 1, !.resp = ErrorResponse(500, NoSessionMsg)]
        ELSE Execute(s, command)

\* extension.ts:155-174: POST /debug/step up to its await.  `input` is
\* req.body.action; the destructuring default applies when it is undefined.
StepHandler(input, noSession) ==
    LET action  == IF input = Missing THEN "over" ELSE input
        command == StepCommand(action)
        s == [NewSlot("step") EXCEPT !.action = action, !.sessionless = noSession,
                                     !.input = input]
    IN  IF command = NoCommand
        THEN [s EXCEPT !.pc = "done",
                       !.sent = @ + 1, !.resp = ErrorResponse(400, "Invalid step action. Use: over, into, out")]
        ELSE Execute(s, command)

\* extension.ts:197-228, mutated: the handler requires an active session
ControlHandler_SessionCheck(input, noSession) ==
    LET s == [NewSlot("control") EXCEPT !.action = input, !.sessionless = noSession,
                                        !.message = ControlMessage(input)]
    IN  IF ControlCommand(input) = NoCommand
        THEN [s EXCEPT !.pc = "done",
                       !.sent = @ + 1, !.resp = ErrorResponse(400,
                           "Invalid action. Use: continue, pause, stop, restart, start")]
        ELSE IF noSession
        THEN [s EXCEPT !.pc = "done", !.sent = @ + 1, !.resp = ErrorResponse(500, NoSessionMsg)]
        ELSE Execute(s, ControlCommand(input))

\* extension.ts:197-228: POST /debug/control up to its await
ControlHandler(input, noSession) ==
    LET command == ControlCommand(input)
        s == [NewSlot("control") EXCEPT !.action = input, !.sessionless = noSession,
                                        !.message = ControlMessage(input)]
    IN  IF command = NoCommand
        THEN [s EXCEPT !.pc = "done",
                       !.sent = @ + 1, !.resp = ErrorResponse(400,
                           "Invalid action. Use: continue, pause, stop, restart, start")]
        ELSE Execute(s, command)

\* extension.ts:176-190 and 229-235: the command has resolved.  A step
\* schedules the follow-up capture and answers at once; a control logs and
\* answers.
AfterCommand(s) ==
    IF s.kind = "step"
    THEN [s EXCEPT !.timers = @ + 1, !.pc = "timer",
                   !.sent = @ + 1, !.resp = JsonResponse([success |-> TRUE,
                                          action  |-> "step_" \o s.action,
                                          message |-> "Executed step " \o s.action])]
    ELSE [s EXCEPT !.log = Append(@, s.message), !.pc = "done",
                   !.sent = @ + 1, !.resp = JsonResponse([success |-> TRUE,
                                          action  |-> s.action,
                                          message |-> s.message])]

\* extension.ts:191-193 and 236-238, mutated: no catch block, the rejection
\* leaves the handler
CommandRejected_NoCatch(s) == [s EXCEPT !.pc = "done"]

\* extension.ts:191-193 and 236-238: the command has rejected
CommandRejected(s) ==
    [s EXCEPT !.pc = "done", !.sent = @ + 1, !.resp = ErrorResponse(500, CommandFailedMsg)]

----------------------------------------------------------------------------
(* Command translator: the handlers of /debug/breakpoint and               *)
(* /debug/breakpoints                                                      *)

BpActions == {"set", "remove"}

\* The values a caller may send as file, line (<<>>: no line field; <<n>>: the
\* number n) and action.
BpFileInputs == AbsoluteFiles \cup RelativeFiles \cup {Missing}

BpLineInputs == {<<>>, <<0>>, <<-1>>, <<1>>}

BpActionInputs == BpActions \cup {"toggle", Missing}

\* extension.ts:246, mutated: the file is not checked
NoFileGiven_Never(file) == FALSE

\* extension.ts:246: !file
NoFileGiven(file) == file \in {Missing, ""}

\* extension.ts:246: !line
NoLineGiven(line) == line = <<>> \/ line = <<0>>

\* extension.ts:251: line - 1
ZeroBased(line) == line - 1

\* extension.ts:291, mutated: the line is reported as the host holds it
OneBased_Same(line) == line

\* extension.ts:291: line + 1
OneBased(line) == line + 1

\* extension.ts:255-277, mutated: the remove branch calls addBreakpoints
BpCall_RemoveAdds(action) ==
    CASE action = "set"    -> "addBreakpoints"
      [] action = "remove" -> "addBreakpoints"
      [] OTHER             -> NoCommand

\* extension.ts:255-277: the host call of each action; NoCommand is the else
\* branch
BpCall(action) ==
    CASE action = "set"    -> "addBreakpoints"
      [] action = "remove" -> "removeBreakpoints"
      [] OTHER             -> NoCommand

\* extension.ts:257-263 and 267-273: the text of the log line and the message
BpMessage(action, file, line) ==
    (IF action = "set" THEN "Breakpoint set at " ELSE "Breakpoint removed from ")
        \o file \o ":" \o ToString(line)

\* extension.ts:256, 266: the call on vscode.debug
HostCall(op, bps, bp) ==
    IF op = "addBreakpoints" THEN AddBreakpoints(bps, bp) ELSE RemoveBreakpoints(bps, bp)

CallOf(op, bp) == [op |-> op, file |-> bp.file, line |-> bp.line]

\* extension.ts:242-281: POST /debug/breakpoint, which has no await.  `input`
\* is req.body.action; the destructuring default applies when it is undefined.
\* The result is the slot and the host's breakpoint list after the handler.
BreakpointHandler(file, line, input, bps) ==
    LET action == IF input = Missing THEN "set" ELSE input
        s == [NewSlot("breakpoint") EXCEPT !.action = action, !.file = file,
                                           !.line = line, !.pc = "done", !.fresh = TRUE]
    IN  IF NoFileGiven(file) \/ NoLineGiven(line)
        THEN [slot |-> [s EXCEPT !.sent = @ + 1, !.resp = ErrorResponse(400, "file and line are required")],
              breakpoints |-> bps]
        ELSE IF ZeroBased(line[1]) < 0
        THEN \* new vscode.Position throws; the catch block answers
             [slot |-> [s EXCEPT !.sent = @ + 1, !.resp = ErrorResponse(500, IllegalLineMsg)],
              breakpoints |-> bps]
        ELSE
        LET breakpoint ==
                [SourceBreakpoint(FreshId(bps), UriFile(file), ZeroBased(line[1]))
                    EXCEPT !.origin = [file |-> file, line |-> line[1]]]
            op == BpCall(action)
            message == BpMessage(action, file, line[1])
        IN  IF op = NoCommand
            THEN [slot |-> [s EXCEPT !.sent = @ + 1, !.resp = ErrorResponse(400,
                                                "Invalid action. Use: set, remove")],
                  breakpoints |-> bps]
            ELSE [slot |-> [s EXCEPT
                        !.bpCalls = <<CallOf(op, breakpoint)>>,
                        !.log = <<message>>,
                        !.sent = @ + 1, !.resp = JsonResponse([success |-> TRUE, action |-> action,
                                               file |-> file, line |-> line,
                                               message |-> message])],
                  breakpoints |-> HostCall(op, bps, breakpoint)]

\* extension.ts:286-296: one entry of the listing
ListEntry(bp) ==
    IF bp.type = "source"
    THEN [type |-> "source", file |-> bp.file, line |-> OneBased(bp.line),
          enabled |-> bp.enabled]
    ELSE [type |-> "other", enabled |-> bp.enabled]

\* extension.ts:284-302, mutated: the list is answered from a copy taken
\* when the routes were registered, when the host held no breakpoint
BreakpointsHandler_Cached(bps) ==
    [NewSlot("breakpoints") EXCEPT
        !.pc = "done",
        !.sent = @ + 1, !.resp = JsonResponse([breakpoints |-> <<>>, count |-> 0])]

\* extension.ts:284-302: GET /debug/breakpoints
BreakpointsHandler(bps) ==
    LET list == [i \in 1..Len(bps) |-> ListEntry(bps[i])] IN
    [NewSlot("breakpoints") EXCEPT
        !.pc = "done",
        !.sent = @ + 1, !.resp = JsonResponse([breakpoints |-> list, count |-> Len(list)])]

----------------------------------------------------------------------------
(* Command translator: the handler of /debug/evaluate                      *)

\* The values a caller may send as expression and as context.
ExpressionInputs == {"x", "", Missing}

ContextInputs == {"hover", Missing}

\* extension.ts:309, mutated: only an absent expression is refused
NoExpression_OnlyUndefined(expression) == expression = Missing

\* extension.ts:309: !expression
NoExpression(expression) == expression \in {Missing, ""}

\* extension.ts:315, mutated: the status of captureDebugContext's failure
EvalNoSessionStatus_AsContext == 400 + 100

\* The status of the answer when no session is active
EvalNoSessionStatus == 400

\* extension.ts:307, mutated: another default
EvalContext_Repl(input) == IF input = Missing THEN "repl" ELSE input

\* extension.ts:307: context: evalContext = 'watch'
EvalContext(input) == IF input = Missing THEN "watch" ELSE input

\* extension.ts:305-321: POST /debug/evaluate up to its await
EvaluateHandler(expression, input, active) ==
    LET evalContext == EvalContext(input)
        s == [NewSlot("evaluate") EXCEPT !.expression = expression,
                                         !.context = evalContext]
    IN  IF NoExpression(expression)
        THEN [s EXCEPT !.pc = "done",
                       !.sent = @ + 1, !.resp = ErrorResponse(400, "expression is required")]
        ELSE IF active = NoSession
        THEN [s EXCEPT !.pc = "done", !.sessionless = TRUE,
                       !.sent = @ + 1, !.resp = ErrorResponse(EvalNoSessionStatus, NoSessionMsg)]
        ELSE [s EXCEPT !.pc = "await_evaluate", !.session = active,
                       !.evals = Append(@, [expression |-> expression,
                                            context |-> evalContext,
                                            state |-> "pending",
                                            answer |-> DapError("")])]

\* extension.ts:318-332: the evaluate request settles with the answer r
OnEvaluate(s, r) ==
    LET a == [s EXCEPT !.pc = "done",
                       !.evals[Len(s.evals)] =
                           [@ EXCEPT !.state = IF r.ok THEN "ok" ELSE "failed",
                                     !.answer = r]]
    IN  IF ~r.ok THEN [a EXCEPT !.sent = @ + 1, !.resp = ErrorResponse(500, r.err)]
        ELSE [a EXCEPT !.log = Append(@, "Evaluated: " \o s.expression \o " = " \o r.result),
                       !.sent = @ + 1, !.resp = JsonResponse([success |-> TRUE,
                                              expression |-> s.expression,
                                              result |-> r.result,
                                              type |-> r.type])]

----------------------------------------------------------------------------
(* The read endpoints /health and /debug/status                            *)

\* JavaScript null in a response body.
Null == "<null>"

\* extension.ts:119-126, mutated: hasActiveSession is reported true whatever
\* the host says
HealthHandler_AlwaysActive(port, active) ==
    [NewSlot("health") EXCEPT
        !.pc = "done", !.sent = @ + 1,
        !.resp = JsonResponse([status |-> "ok", port |-> port,
                               hasActiveSession |-> TRUE])]

\* extension.ts:119-126: GET /health (the timestamp is left out)
HealthHandler(port, active) ==
    [NewSlot("health") EXCEPT
        !.pc = "done", !.sent = @ + 1,
        !.resp = JsonResponse([status |-> "ok", port |-> port,
                               hasActiveSession |-> active # NoSession])]

\* extension.ts:129-142: GET /debug/status (the timestamp is left out)
StatusHandler(active, bps) ==
    [NewSlot("status") EXCEPT
        !.pc = "done", !.sent = @ + 1,
        !.resp = JsonResponse(
            [hasActiveSession |-> active # NoSession,
             sessionName |-> IF active = NoSession \/ active.name = "" THEN Null
                             ELSE active.name,
             sessionType |-> IF active = NoSession \/ active.type = "" THEN Null
                             ELSE active.type,
             breakpoints |-> Len(bps)])]

----------------------------------------------------------------------------
(* Actions                                                                 *)

\* History of a read endpoint: the host's breakpoint list when it ran.
Reading(s, bps) == [s EXCEPT !.seen = bps, !.fresh = TRUE]

\* GET /health arrives
HealthRequest ==
    /\ ServerUp
    /\ HasRoom
    /\ slots' = slots (+) SetToBag({[HealthHandler(currentPort, session)
                                        EXCEPT !.sessionless = session = NoSession]})
    /\ UNCHANGED <<startVars, hostVars>>

\* GET /debug/status arrives
StatusRequest ==
    /\ ServerUp
    /\ HasRoom
    /\ slots' = slots (+) SetToBag({[Reading(StatusHandler(session, breakpoints),
                                             breakpoints)
                                        EXCEPT !.sessionless = session = NoSession]})
    /\ UNCHANGED <<startVars, hostVars>>

\* GET /debug/context arrives (extension.ts:145-147)
ContextRequest ==
    /\ ServerUp
    /\ HasRoom
    /\ slots' = slots (+) SetToBag({CaptureStart(
                    [NewSlot("context") EXCEPT !.sessionless = session = NoSession],
                    session)})
    /\ UNCHANGED <<startVars, hostVars>>

\* POST /debug/step arrives
StepRequest(input) ==
    /\ ServerUp
    /\ HasRoom
    /\ slots' = slots (+) SetToBag({StepHandler(input, session = NoSession)})
    /\ UNCHANGED <<startVars, hostVars>>

\* POST /debug/control arrives
ControlRequest(input) ==
    /\ ServerUp
    /\ HasRoom
    /\ slots' = slots (+) SetToBag({ControlHandler(input, session = NoSession)})
    /\ UNCHANGED <<startVars, hostVars>>

\* The awaited executeCommand settles: the host ran the command, or rejected it
CommandReturn(s) ==
    /\ s.pc = "await_command"
    /\ \E ok \in BOOLEAN :
         IF ok
         THEN \E h \in CommandOutcomes(s.command) :
                LET others == IF h.session = session /\ h.paused = paused
                              THEN Without(s) ELSE HostChanged(Without(s))
                    me == [s EXCEPT !.sessionless = @ /\ session = NoSession]
                IN  /\ session' = h.session
                    /\ paused' = h.paused
                    /\ UNCHANGED breakpoints
                    /\ slots' = others (+) SetToBag({AfterCommand(me)})
         ELSE /\ slots' = Without(s) (+) SetToBag({CommandRejected(s)})
              /\ UNCHANGED hostVars
    /\ UNCHANGED startVars

\* The 500 ms timer of a step fires: the follow-up capture starts
\* (extension.ts:177-179)
TimerFire(s) ==
    /\ s.pc = "timer"
    /\ slots' = Without(s) (+) SetToBag({CaptureStart(s, session)})
    /\ UNCHANGED <<startVars, hostVars>>

\* The awaited stackTrace request settles
StackTraceReturn(s) ==
    /\ s.pc = "await_stackTrace"
    /\ slots' = Without(s) (+) SetToBag({OnStackTrace(s, HostAnswer(s))})
    /\ UNCHANGED <<startVars, hostVars>>

\* The awaited scopes request settles
ScopesReturn(s) ==
    /\ s.pc = "await_scopes"
    /\ slots' = Without(s) (+) SetToBag({OnScopes(s, HostAnswer(s))})
    /\ UNCHANGED <<startVars, hostVars>>

\* The awaited variables request settles
VariablesReturn(s) ==
    /\ s.pc = "await_variables"
    /\ slots' = Without(s) (+) SetToBag({OnVariables(s, HostAnswer(s))})
    /\ UNCHANGED <<startVars, hostVars>>

\* POST /debug/evaluate arrives
EvaluateRequest(expression, input) ==
    /\ ServerUp
    /\ HasRoom
    /\ slots' = slots (+) SetToBag({EvaluateHandler(expression, input, session)})
    /\ UNCHANGED <<startVars, hostVars>>

\* The awaited evaluate request settles
EvaluateReturn(s) ==
    /\ s.pc = "await_evaluate"
    /\ LET q == s.evals[Len(s.evals)] IN
       slots' = Without(s) (+) SetToBag({OnEvaluate(s,
                    CustomRequest(s.session, "evaluate",
                                  [expression |-> q.expression, context |-> q.context]))})
    /\ UNCHANGED <<startVars, hostVars>>

\* POST /debug/breakpoint arrives
\* By how many breakpoints the list `after` differs from `before`: 0, 1 (one
\* appended or one dropped), or 2 for anything more.
Delta(before, after) ==
    IF after = before THEN 0
    ELSE IF \/ /\ Len(after) = Len(before) + 1
               /\ SubSeq(after, 1, Len(before)) = before
            \/ \E k \in 1..Len(before) : after = Dropped(before, k)
    THEN 1
    ELSE 2

BreakpointRequest(file, line, input) ==
    LET r == BreakpointHandler(file, line, input, breakpoints) IN
    /\ ServerUp
    /\ HasRoom
    /\ Len(r.breakpoints) <= MaxBreakpoints
    /\ breakpoints' = r.breakpoints
    /\ slots' = (IF r.breakpoints = breakpoints THEN slots ELSE ListChanged(slots))
                 (+) SetToBag({[r.slot EXCEPT
                    !.known = \E k \in 1..Len(breakpoints) :
                                 /\ breakpoints[k].type = "source"
                                 /\ breakpoints[k].file = UriFile(file)
                                 /\ <<OneBased(breakpoints[k].line)>> = line,
                    !.bpChanged = r.breakpoints # breakpoints,
                    !.bpDelta = Delta(breakpoints, r.breakpoints)]})
    /\ UNCHANGED <<startVars, session, paused>>

\* GET /debug/breakpoints arrives
BreakpointsRequest ==
    /\ ServerUp
    /\ HasRoom
    /\ slots' = slots (+) SetToBag({Reading(BreakpointsHandler(breakpoints),
                                            breakpoints)})
    /\ UNCHANGED <<startVars, hostVars>>

\* The caller has its response and the handler's work is over: the slot is free
Retire(s) ==
    /\ s.pc = "done"
    /\ slots' = Without(s)
    /\ UNCHANGED <<startVars, hostVars>>

\* extension.ts:394-396
OnDidStartDebugSession(s) == "Debug session started: " \o s.name

\* extension.ts:398-400
OnDidTerminateDebugSession(s) == "Debug session ended: " \o s.name

\* The kinds of custom event, and the reasons event.body may carry.
CustomKinds == {"stopped", "progress"}

CustomReasons == {Missing, "", "breakpoint"}

\* extension.ts:402-406, mutated: the kind of the event is not looked at
OnDidReceiveDebugSessionCustomEvent_AnyKind(log, kind, reason) ==
    "Debugger stopped: " \o (IF reason \in {Missing, ""} THEN "unknown" ELSE reason)

\* extension.ts:402-406: only 'stopped' is logged, `body?.reason || 'unknown'`
OnDidReceiveDebugSessionCustomEvent(log, kind, reason) ==
    IF kind = "stopped"
    THEN "Debugger stopped: " \o (IF reason \in {Missing, ""} THEN "unknown" ELSE reason)
    ELSE log

\* The host: a debug session starts
SessionStarts ==
    /\ session = NoSession
    /\ session' \in Sessions
    /\ paused' = 0
    /\ slots' = HostChanged(slots)
    /\ UNCHANGED <<startVars, breakpoints>>

\* The host: the active debug session ends
SessionTerminates ==
    /\ session # NoSession
    /\ session' = NoSession
    /\ paused' = 0
    /\ slots' = HostChanged(slots)
    /\ UNCHANGED <<startVars, breakpoints>>

\* The host: the running debuggee stops (breakpoint, end of a step, pause)
DebuggeeStops ==
    /\ session # NoSession
    /\ paused = 0
    /\ paused' \in PauseIds
    /\ slots' = HostChanged(slots)
    /\ UNCHANGED <<startVars, session, breakpoints>>

\* The host: the stopped debuggee is resumed from the editor
DebuggeeResumes ==
    /\ paused # 0
    /\ paused' = 0
    /\ slots' = HostChanged(slots)
    /\ UNCHANGED <<startVars, session, breakpoints>>

\* The host notifies that a debug session has started (any session, active
\* or not; the notification is not tied to a change of activeDebugSession):
\* the listener of extension.ts:394-396 runs.
SessionStartedEvent(s) ==
    /\ listenerLog' = OnDidStartDebugSession(s)
    /\ UNCHANGED <<serverVars, hostVars, slots>>

\* The host notifies that a debug session has ended: the listener of
\* extension.ts:398-400 runs.
SessionTerminatedEvent(s) ==
    /\ listenerLog' = OnDidTerminateDebugSession(s)
    /\ UNCHANGED <<serverVars, hostVars, slots>>

\* The host passes on an event of a debug adapter that the editor does not
\* handle itself: the listener of extension.ts:402-406 runs.
CustomEvent(kind, reason) ==
    /\ listenerLog' = OnDidReceiveDebugSessionCustomEvent(listenerLog, kind, reason)
    /\ UNCHANGED <<serverVars, hostVars, slots>>

\* The host: a function breakpoint is added from the editor
HostAddsBreakpoint ==
    /\ Len(breakpoints) < MaxBreakpoints
    /\ breakpoints' = Append(breakpoints, FunctionBreakpoint(FreshId(breakpoints)))
    /\ slots' = ListChanged(slots)
    /\ UNCHANGED <<startVars, session, paused>>

\* The host: a breakpoint is removed from the editor
HostRemovesBreakpoint ==
    /\ \E k \in 1..Len(breakpoints) : breakpoints' = Dropped(breakpoints, k)
    /\ slots' = ListChanged(slots)
    /\ UNCHANGED <<startVars, session, paused>>

----------------------------------------------------------------------------
(* Specifications                                                          *)

\* extension.ts:21-24, 46-53: nothing is bound, the loop is at its first port
InitModule ==
    /\ startPc = "loop"
    /\ portIdx = 1
    /\ serverInstance = 0
    /\ currentPort = 0
    /\ listening = {}
    /\ routesRegistered = FALSE
    /\ errorShown = 0
    /\ attempts = <<>>
    /\ descriptorWrites = 0
    /\ overwrote = FALSE
    /\ deactivations = 0
    /\ closeCalls = 0
    /\ deleteFailed = FALSE
    /\ raised = FALSE
    /\ listenerLog = ""
    /\ session = NoSession
    /\ paused = 0
    /\ breakpoints = <<>>
    /\ slots = EmptyBag

\* Startup under every assignment of free/occupied to the candidates, with or
\* without a stale descriptor file.
InitStart ==
    /\ occupied \in SUBSET PortSet
    /\ descriptor \in {NoFile, StaleDescriptor}
    /\ fsWritable \in BOOLEAN
    /\ InitModule

NextStart == TryPort \/ Deactivate \/ FsChanges

StartSpec == InitStart /\ [][NextStart]_vars

\* Startup when a call after the bind may throw inside the try block.
NextFault ==
    \/ TryPort
    \/ \E at \in ThrowPoints : TryPortThrows(at)
    \/ FsChanges

FaultSpec == InitStart /\ [][NextFault]_vars

\* Serving: startup with every candidate free or every candidate occupied and
\* a writable temporary directory, then requests and host events in any
\* interleaving.
Init ==
    /\ occupied \in {{}, PortSet}
    /\ descriptor = NoFile
    /\ fsWritable = TRUE
    /\ InitModule

Next ==
    \/ TryPort
    \/ HealthRequest
    \/ StatusRequest
    \/ ContextRequest
    \/ \E input \in StepInputs : StepRequest(input)
    \/ \E input \in ControlInputs : ControlRequest(input)
    \/ \E expression \in ExpressionInputs, input \in ContextInputs :
          EvaluateRequest(expression, input)
    \/ \E s \in InFlight : EvaluateReturn(s)
    \/ \E s \in InFlight : CommandReturn(s)
    \/ \E s \in InFlight : TimerFire(s)
    \/ \E s \in InFlight : StackTraceReturn(s)
    \/ \E s \in InFlight : ScopesReturn(s)
    \/ \E s \in InFlight : VariablesReturn(s)
    \/ \E s \in InFlight : Retire(s)
    \/ SessionStarts
    \/ SessionTerminates
    \/ DebuggeeStops
    \/ DebuggeeResumes

Spec == Init /\ [][Next]_vars

\* The breakpoint endpoints: startup as in Spec, then breakpoint requests and
\* the host's own changes of its breakpoint list in any interleaving.
NextBp ==
    \/ TryPort
    \/ \E file \in BpFileInputs, line \in BpLineInputs, input \in BpActionInputs :
          BreakpointRequest(file, line, input)
    \/ BreakpointsRequest
    \/ StatusRequest
    \/ \E s \in InFlight : Retire(s)
    \/ HostAddsBreakpoint
    \/ HostRemovesBreakpoint

BpSpec == Init /\ [][NextBp]_vars

\* The four read endpoints, while the host changes its session, its stop and
\* its breakpoints.
NextRead ==
    \/ TryPort
    \/ HealthRequest
    \/ StatusRequest
    \/ BreakpointsRequest
    \/ ContextRequest
    \/ \E s \in InFlight : StackTraceReturn(s)
    \/ \E s \in InFlight : ScopesReturn(s)
    \/ \E s \in InFlight : VariablesReturn(s)
    \/ \E s \in InFlight : Retire(s)
    \/ SessionStarts
    \/ SessionTerminates
    \/ DebuggeeStops
    \/ DebuggeeResumes
    \/ HostAddsBreakpoint
    \/ HostRemovesBreakpoint

ReadSpec == Init /\ [][NextRead]_vars

\* The life of the server: startup under every occupancy, health checks
\* while it listens, deactivation, and the temporary directory turning
\* read-only and back.
NextLife ==
    \/ TryPort
    \/ Deactivate
    \/ FsChanges
    \/ HealthRequest
    \/ \E s \in InFlight : Retire(s)

LifeSpec == InitStart /\ [][NextLife]_vars

\* The debug listeners: the host's notifications of sessions and of custom
\* events, while the host changes and captures are in flight.
NextListener ==
    \/ TryPort
    \/ ContextRequest
    \/ \E s \in InFlight : StackTraceReturn(s)
    \/ \E s \in InFlight : ScopesReturn(s)
    \/ \E s \in InFlight : VariablesReturn(s)
    \/ \E s \in InFlight : Retire(s)
    \/ SessionStarts
    \/ SessionTerminates
    \/ DebuggeeStops
    \/ DebuggeeResumes
    \/ \E s \in Sessions : SessionStartedEvent(s)
    \/ \E s \in Sessions : SessionTerminatedEvent(s)
    \/ \E kind \in CustomKinds, reason \in CustomReasons : CustomEvent(kind, reason)

ListenerSpec == Init /\ [][NextListener]_vars

\* All eight endpoints and all host events together.
NextAll == Next \/ NextBp

AllSpec == Init /\ [][NextAll]_vars

----------------------------------------------------------------------------
(* Claims about startup                                                    *)

FreeIdx == {i \in 1..Len(PORTS) : PORTS[i] \notin occupied}

FirstFreeIdx == CHOOSE i \in FreeIdx : \A j \in FreeIdx : i <= j

\* C1: whenever at least one candidate port is free, startExpressServer ends
\* with a listener on the first free candidate in list order, currentPort and
\* serverInstance name it, and listen() was called exactly on the candidates
\* up to and including it (nothing was attempted after the successful bind).
\* Until then the loop stands at or before that candidate with nothing bound.
C1_FirstFreePortBound ==
    (FreeIdx # {}) =>
        /\ errorShown = 0
        /\ IF startPc = "done"
           THEN /\ serverInstance = PORTS[FirstFreeIdx]
                /\ currentPort = PORTS[FirstFreeIdx]
                /\ attempts = SubSeq(PORTS, 1, FirstFreeIdx)
           ELSE /\ portIdx <= FirstFreeIdx
                /\ attempts = SubSeq(PORTS, 1, portIdx - 1)
                /\ serverInstance = 0
                /\ listening = {}

\* C1 witness: startup finished on a port that is not the first candidate,
\* with free and occupied candidates after it.
C1_Witness ==
    /\ startPc = "done"
    /\ currentPort = PORTS[3]
    /\ PORTS[5] \in occupied
    /\ PORTS[6] \notin occupied
    /\ listening = {PORTS[3]}

\* C2: when every candidate port is occupied, startExpressServer calls
\* listen() on the candidates in list order, each at most once, and ends once
\* each was tried; then the operator error has been shown once (never before),
\* and no descriptor is written and no routes are registered at any time.
C2_NoPortAvailable ==
    (FreeIdx = {}) =>
        /\ attempts = SubSeq(PORTS, 1, Len(attempts))
        /\ serverInstance = 0
        /\ listening = {}
        /\ descriptorWrites = 0
        /\ descriptor \in {NoFile, StaleDescriptor}
        /\ ~routesRegistered
        /\ IF startPc = "done"
           THEN attempts = PORTS /\ errorShown = 1
           ELSE Len(attempts) = portIdx - 1 /\ portIdx <= Len(PORTS) /\ errorShown = 0

\* C2 witness: all ten candidates occupied and startup has returned.
C2_Witness ==
    /\ startPc = "done"
    /\ occupied = PortSet
    /\ errorShown = 1

----------------------------------------------------------------------------
(* Claims about the handlers and the aggregator                            *)

\* The slot holds a request that has been answered.
Answered200(s) == s.resp.status = 200

\* The capture of slot s returned a snapshot: to the caller of GET
\* /debug/context, or to the follow-up of a step.
CaptureSucceeded(s) ==
    \/ s.kind = "context" /\ s.resp.status = 200
    \/ s.kind = "step" /\ s.pc = "done"
       /\ s.log # <<>> /\ s.log[Len(s.log)] = "Step completed"

\* C3: a POST /debug/step whose action is none of over, into, out is answered
\* 400 at once, and has executed no command, scheduled no follow-up and issued
\* no DAP request.
C3_InvalidStepRejected ==
    \A s \in InFlight :
        (s.kind = "step" /\ s.action \notin {"over", "into", "out"}) =>
            /\ s.pc = "done"
            /\ s.resp.status = 400
            /\ s.commands = <<>>
            /\ s.timers = 0
            /\ s.dap = <<>>

\* C3 witness: an invalid step was rejected while a session was stopped, so
\* that a step command would have had an effect.
C3_Witness ==
    \E s \in InFlight :
        /\ s.kind = "step"
        /\ s.action = "sideways"
        /\ s.resp.status = 400
        /\ session # NoSession
        /\ paused # 0

\* The stackTrace request of slot s was answered with zero frames.
EmptyStackSeen(s) ==
    /\ Len(s.dap) >= 1
    /\ s.dap[1].state = "ok"
    /\ s.dap[1].n = 0

\* The scopes request of slot s was answered with zero scopes.
EmptyScopesSeen(s) ==
    /\ Len(s.dap) >= 2
    /\ s.dap[2].state = "ok"
    /\ s.dap[2].n = 0

\* C4: a capture whose stackTrace response holds zero frames fails with an
\* error of its own (not the TypeError of reading a property of undefined),
\* never reads element 0 of the empty frame sequence, and issues neither a
\* scopes nor a variables request.
C4_EmptyStackError ==
    \A s \in InFlight :
        (s.kind = "context" /\ EmptyStackSeen(s)) =>
            /\ s.pc = "done"
            /\ s.resp.status = 500
            /\ s.resp.error # TypeErrorMsg("id")
            /\ ~s.outOfRange
            /\ Len(s.dap) = 1

\* C5: a capture with a non-empty stack whose scopes response holds zero
\* scopes fails with an error of its own (not the TypeError of reading a
\* property of undefined) and issues no variables request.
C5_EmptyScopesError ==
    \A s \in InFlight :
        (s.kind = "context" /\ EmptyScopesSeen(s)) =>
            /\ s.pc = "done"
            /\ s.resp.status = 500
            /\ s.resp.error # TypeErrorMsg("variablesReference")
            /\ ~s.outOfRange
            /\ Len(s.dap) = 2

DapOrder == <<"stackTrace", "scopes", "variables">>

\* C6: the DAP requests of a capture are issued in the order stackTrace,
\* scopes, variables, each only after the one before it was answered; a
\* capture that succeeds has issued exactly these three, stackTrace with
\* threadId 1, scopes with the id of the first frame of the stackTrace
\* response, variables with the variablesReference of the first scope of the
\* scopes response.
C6_ThreeRequestsInOrder ==
    \A s \in InFlight :
        LET d == s.dap IN
        /\ Len(d) <= 3
        /\ \A i \in 1..Len(d) :
             /\ d[i].command = DapOrder[i]
             /\ (i < Len(d)) => d[i].state = "ok"
        /\ CaptureSucceeded(s) =>
             /\ Len(d) = 3
             /\ d[3].state = "ok"
             /\ d[1].arg = 1
             /\ d[2].arg = s.stackResp[1].id
             /\ d[3].arg = s.scopesResp[1].variablesReference

\* C6 witness: a GET /debug/context succeeded on a stack of two frames whose
\* top frame has two scopes.
C6_Witness ==
    \E s \in InFlight :
        /\ s.kind = "context"
        /\ Answered200(s)
        /\ Len(s.stackResp) = 2
        /\ Len(s.scopesResp) = 2
        /\ s.dap[2].arg = 17
        /\ s.dap[3].arg = 2

\* The debuggee is stopped with at least one frame and at least one scope in
\* its top frame.
StoppedWithScope ==
    /\ session # NoSession
    /\ paused # 0
    /\ PauseStates[paused].frames # <<>>
    /\ PauseStates[paused].scopes[PauseStates[paused].frames[1].id] # <<>>

\* C7: a GET /debug/context that ran while the session stayed stopped at one
\* place with a non-empty stack and a scope in the top frame is answered 200
\* with the host's stack, the session's name and type, the top frame's source
\* path, name, line and column as currentFrame, and the variables of the first
\* scope of the top frame; and in every 200 answer currentFrame is taken from
\* the first frame of the stack it carries (file is absent when that frame
\* has no source).
C7_SnapshotOfTopFrame ==
    \A s \in InFlight :
        LET b == s.resp.body IN
        /\ (s.kind = "context" /\ s.pc = "done" /\ s.fresh /\ StoppedWithScope) =>
             LET ps  == PauseStates[paused]
                 top == ps.frames[1]
             IN
             /\ s.resp.status = 200
             /\ b.stack.stackFrames = ps.frames
             /\ b.scopes.scopes = ps.scopes[top.id]
             /\ b.variables.variables =
                    ps.variables[ps.scopes[top.id][1].variablesReference]
             /\ b.session = [name |-> session.name, type |-> session.type]
        /\ (s.kind = "context" /\ s.resp.status = 200) =>
             /\ b.currentFrame.file =
                    IF b.stack.stackFrames[1].path = NoPath THEN Missing
                    ELSE b.stack.stackFrames[1].path
             /\ b.currentFrame.function = b.stack.stackFrames[1].name
             /\ b.currentFrame.line = b.stack.stackFrames[1].line
             /\ b.currentFrame.column = b.stack.stackFrames[1].column
             /\ b.session = [name |-> s.session.name, type |-> s.session.type]

\* C7 witness: one frame (id 16, line 42, /a.js), one scope, one variable.
C7_Witness ==
    \E s \in InFlight :
        /\ s.kind = "context"
        /\ s.fresh
        /\ paused = 1
        /\ Answered200(s)
        /\ s.resp.body.currentFrame =
              [file |-> "/a.js", function |-> "main", line |-> 42, column |-> 5]
        /\ Len(s.resp.body.variables.variables) = 1

\* C8: a GET /debug/context that finds no active debug session is answered
\* 500 {error: "No active debug session"} at once and issues no DAP request.
C8_NoSessionContext ==
    \A s \in InFlight :
        (s.kind = "context" /\ s.session = NoSession) =>
            /\ s.pc = "done"
            /\ s.resp.status = 500
            /\ s.resp.error = "No active debug session"
            /\ s.dap = <<>>

\* C8 witness: such a request was answered.
C8_Witness ==
    \E s \in InFlight :
        /\ s.kind = "context"
        /\ s.resp.status = 500
        /\ s.dap = <<>>
        /\ session = NoSession

\* C9: a POST /debug/control with a valid action, handled while no debug
\* session was active, hands its command to the host executor all the same
\* and is answered 200 {success: true} when the executor resolves; the only
\* other answer is the 500 of an executor that rejects.
C9_ControlWithoutSession ==
    \A s \in InFlight :
        (s.kind = "control" /\ s.sessionless
            /\ s.action \in {"continue", "pause", "stop", "restart", "start"}) =>
            /\ Len(s.commands) = 1
            /\ s.pc = "done" =>
                 \/ /\ s.resp.status = 200
                    /\ s.resp.body.success
                    /\ s.resp.body.action = s.action
                 \/ /\ s.resp.status = 500
                    /\ s.resp.error = CommandFailedMsg

\* C9 witness: continue was answered 200 with no session active throughout.
C9_Witness ==
    \E s \in InFlight :
        /\ s.kind = "control"
        /\ s.sessionless
        /\ s.action = "continue"
        /\ s.resp.status = 200
        /\ s.commands = <<"workbench.action.debug.continue">>
        /\ session = NoSession

\* C10: a POST /debug/control whose action is none of continue, pause, stop,
\* restart, start (a missing action included) is answered 400 at once and
\* executes no host command.
C10_InvalidControlRejected ==
    \A s \in InFlight :
        (s.kind = "control"
            /\ s.action \notin {"continue", "pause", "stop", "restart", "start"}) =>
            /\ s.pc = "done"
            /\ s.resp.status = 400
            /\ s.commands = <<>>

\* C10 witness: a control request without action was rejected while a
\* session was active.
C10_Witness ==
    \E s \in InFlight :
        /\ s.kind = "control"
        /\ s.action = Missing
        /\ s.resp.status = 400
        /\ session # NoSession

\* The host command the claim names for each action.
Primitive ==
    [a \in StepActions \cup ControlActions |->
        "workbench.action.debug." \o
            (CASE a = "over" -> "stepOver" [] a = "into" -> "stepInto"
               [] a = "out" -> "stepOut" [] OTHER -> a)]

\* C11: a request with a valid step action (over, into, out) or a valid
\* control action (continue, pause, stop, restart, start) has called
\* executeCommand exactly once, at every point of its work (the follow-up
\* capture of a step included), with the command of its action, and distinct
\* actions have distinct commands.
C11_OneCommandPerAction ==
    /\ \A s \in InFlight :
          \/ s.kind = "step" /\ s.action \in StepActions
          \/ s.kind = "control" /\ s.action \in ControlActions
          => s.commands = <<Primitive[s.action]>>
    /\ \A s \in InFlight : \A a \in (StepActions \cup ControlActions) \ {s.action} :
          s.kind \in {"step", "control"} /\ s.commands # <<>> =>
              s.commands[1] # Primitive[a]

\* C11 witness: a step out was answered 200 and its follow-up capture has
\* run to its end with DAP requests.
C11_Witness ==
    \E s \in InFlight :
        /\ s.kind = "step"
        /\ s.action = "out"
        /\ s.pc = "done"
        /\ s.resp.status = 200
        /\ s.dap # <<>>
        /\ s.commands = <<"workbench.action.debug.stepOut">>

----------------------------------------------------------------------------
(* Claims about the breakpoint endpoints                                   *)

\* The handler of slot s made no call on the host's breakpoint list and left
\* the list as it found it.
ListUntouched(s) == s.bpCalls = <<>> /\ ~s.bpChanged

\* C12: a POST /debug/breakpoint without file or without line is answered
\* 400, calls neither addBreakpoints nor removeBreakpoints and leaves the
\* host's breakpoint list as it was.
C12_MissingFileOrLine ==
    \A s \in InFlight :
        (s.kind = "breakpoint" /\ (s.file = Missing \/ s.line = <<>>)) =>
            /\ s.pc = "done"
            /\ s.resp.status = 400
            /\ ListUntouched(s)

\* C12 witness: a set without file but with a line was rejected while the
\* host held a breakpoint.
C12_Witness ==
    \E s \in InFlight :
        /\ s.kind = "breakpoint"
        /\ s.file = Missing
        /\ s.line = <<1>>
        /\ s.action = "set"
        /\ s.resp.status = 400
        /\ breakpoints # <<>>

\* C13: a POST /debug/breakpoint that carries a file and a line and whose
\* action is neither set nor remove is answered 400 and leaves the host's
\* breakpoint list as it was.
C13_InvalidBreakpointAction ==
    \A s \in InFlight :
        (s.kind = "breakpoint" /\ s.file # Missing /\ s.line # <<>>
            /\ s.action \notin {"set", "remove"}) =>
            /\ s.resp.status = 400
            /\ ListUntouched(s)

\* The file the amended C14 expects in the listing for a breakpoint set with
\* file f: f itself when f is absolute, f after a slash otherwise.
ListedFile(f) == IF f \in AbsoluteFiles THEN f ELSE "/" \o f

\* Once file f, line n was set and answered 200, and as long as the host's
\* list is as the request left it, the list holds a breakpoint set by (f, n);
\* and every GET /debug/breakpoints reports a breakpoint set by (f, n), at
\* its place in the list, as a source breakpoint of file Listed(f), line n,
\* enabled.
SetThenListed(Listed(_)) ==
    /\ \A s \in InFlight :
          (s.kind = "breakpoint" /\ s.action = "set" /\ s.resp.status = 200 /\ s.fresh) =>
              /\ s.line[1] >= 1
              /\ \E k \in 1..Len(breakpoints) :
                    breakpoints[k].origin = [file |-> s.file, line |-> s.line[1]]
    /\ \A g \in InFlight :
          g.kind = "breakpoints" =>
              /\ g.resp.status = 200
              /\ Len(g.resp.body.breakpoints) = Len(g.seen)
              /\ \A k \in 1..Len(g.seen) :
                    g.seen[k].origin # NoOrigin =>
                        g.resp.body.breakpoints[k] =
                            [type |-> "source", file |-> Listed(g.seen[k].origin.file),
                             line |-> g.seen[k].origin.line, enabled |-> TRUE]

SameFile(f) == f

\* C14 as stated: after a set of file f, line n >= 1, a GET /debug/breakpoints
\* lists {type: "source", file: f, line: n, enabled: true}.
C14_SetThenListed ==
    SetThenListed(SameFile)

\* C14, amended: after a set of file f, line n >= 1, a GET /debug/breakpoints
\* lists {type: "source", file: F, line: n, enabled: true}, where F is the
\* host's path of f: f for an absolute path, "/" followed by f for a
\* relative one; the line is stored as n - 1 and reported as n.
C14_SetThenListedAtHostPath ==
    /\ SetThenListed(ListedFile)
    /\ \A s \in InFlight :
          (s.kind = "breakpoint" /\ s.action = "set" /\ s.resp.status = 200) =>
              s.bpCalls = <<[op |-> "addBreakpoints", file |-> ListedFile(s.file),
                             line |-> s.line[1] - 1]>>

\* C14 witness: GET /debug/breakpoints listed /a.js line 1, set by a request
\* for /a.js line 1, behind a breakpoint of the host's own.
C14_Witness ==
    \E g \in InFlight :
        /\ g.kind = "breakpoints"
        /\ Len(g.seen) = 2
        /\ g.seen[2].origin = [file |-> "/a.js", line |-> 1]
        /\ g.seen[2].line = 0
        /\ g.resp.body.count = 2
        /\ g.resp.body.breakpoints[1].type = "other"
        /\ g.resp.body.breakpoints[2] =
              [type |-> "source", file |-> "/a.js", line |-> 1, enabled |-> TRUE]

\* C15: a POST /debug/breakpoint {action: remove} for a file and a line >= 1
\* at which the host holds no breakpoint is answered 200 {success: true} and
\* leaves the host's breakpoint list as it was, in whatever state it arrives
\* (after the same remove, too).
C15_RemoveNeverSet ==
    \A s \in InFlight :
        (s.kind = "breakpoint" /\ s.action = "remove" /\ s.file # Missing
            /\ s.line # <<>> /\ s.line[1] >= 1 /\ ~s.known) =>
            /\ s.resp.status = 200
            /\ s.resp.body.success
            /\ s.resp.body.action = "remove"
            /\ ~s.bpChanged
            /\ s.bpCalls = <<[op |-> "removeBreakpoints", file |-> ListedFile(s.file),
                              line |-> s.line[1] - 1]>>

\* C15 witness: a remove at /a.js line 1 was answered 200 while the host held
\* breakpoints, none of them there.
C15_Witness ==
    \E s \in InFlight :
        /\ s.kind = "breakpoint"
        /\ s.action = "remove"
        /\ s.file = "/a.js"
        /\ s.line = <<1>>
        /\ ~s.known
        /\ s.resp.status = 200
        /\ Len(breakpoints) = 2
        /\ s.fresh

----------------------------------------------------------------------------
(* Claims about /debug/evaluate                                            *)

\* C16: a POST /debug/evaluate with an empty or missing expression is answered
\* 400 "expression is required" at once, whether or not a debug session is
\* active, and issues no evaluate request.
C16_EmptyExpressionRejected ==
    \A s \in InFlight :
        (s.kind = "evaluate" /\ s.expression \in {"", Missing}) =>
            /\ s.pc = "done"
            /\ s.resp.status = 400
            /\ s.resp.error = "expression is required"
            /\ s.evals = <<>>
            /\ s.dap = <<>>

\* C16 witness: an empty expression was rejected while a session was stopped
\* where x has a value.
C16_Witness ==
    \E s \in InFlight :
        /\ s.kind = "evaluate"
        /\ s.expression = ""
        /\ s.resp.status = 400
        /\ session # NoSession
        /\ paused = 4

----------------------------------------------------------------------------
(* Claims about the responses                                              *)

\* The success response of a step with action a.
StepAck(a) ==
    [status |-> 200, error |-> "",
     body |-> [success |-> TRUE, action |-> "step_" \o a, message |-> "Executed step " \o a]]

\* The follow-up capture of slot s has begun.
FollowUpBegun(s) == s.dap # <<>> \/ (s.pc = "done" /\ s.log # <<>>)

\* C19: a valid POST /debug/step is answered 200 as soon as its command has
\* resolved, with the follow-up capture scheduled and not begun; the capture
\* begins only with the response sent, and while it runs and when it has
\* ended, with a snapshot or with an error (no session, empty stack, a host
\* error), the response is the one that was sent, no other response is sent,
\* and the outcome is one log line.
C19_StepAnsweredBeforeCapture ==
    \A s \in InFlight :
        (s.kind = "step" /\ s.action \in StepActions) =>
            /\ s.pc = "timer" => s.resp = StepAck(s.action) /\ ~FollowUpBegun(s)
            /\ s.timers >= 1 => s.resp = StepAck(s.action) /\ s.sent = 1
            /\ FollowUpBegun(s) => s.timers = 1 /\ s.resp = StepAck(s.action) /\ s.sent = 1
            /\ (s.pc = "done" /\ s.timers = 1) =>
                  /\ Len(s.log) \in {1, 5}
                  /\ s.log[Len(s.log)] \in
                        {"Step completed",
                         "console.error: Failed to capture context after step"}

\* C19 witness: the follow-up capture of an answered step failed on a stop
\* without frames.
C19_Witness ==
    \E s \in InFlight :
        /\ s.kind = "step"
        /\ s.pc = "done"
        /\ s.outOfRange
        /\ s.resp.status = 200
        /\ s.log = <<"console.error: Failed to capture context after step">>

\* The handler of slot s awaits an answer of the host before it responds.
AwaitsHost(s) ==
    \/ s.pc \in {"await_command", "await_evaluate"}
    \/ s.kind = "context" /\ s.pc \in {"await_stackTrace", "await_scopes", "await_variables"}

\* The host failed the call the handler of slot s awaited (history).
HostFailed(s) ==
    \/ s.kind = "context" /\ s.dap # <<>> /\ s.dap[Len(s.dap)].state = "failed"
    \/ s.kind = "evaluate" /\ s.evals # <<>> /\ s.evals[Len(s.evals)].state = "failed"
    \/ s.kind \in {"step", "control"} /\ s.pc = "done" /\ s.commands # <<>> /\ s.timers = 0
       /\ s.log = <<>>

Endpoints ==
    {"health", "status", "context", "step", "control", "breakpoint", "breakpoints",
     "evaluate"}

\* C20: a request to any of the eight endpoints has no response only while
\* its handler awaits the host, and from then on exactly one, of status 200,
\* 400 or 500; when the call the handler awaited has failed, the response is
\* 500 with the error's message.
C20_ExactlyOneResponse ==
    \A s \in InFlight :
        /\ s.kind \in Endpoints
        /\ s.sent = (IF AwaitsHost(s) THEN 0 ELSE 1)
        /\ s.sent = 0 <=> s.resp = NoResponse
        /\ s.sent = 1 => s.resp.status \in {200, 400, 500}
        /\ s.resp.status \in {400, 500} <=> s.resp.error # ""
        /\ HostFailed(s) => s.resp.status = 500
        /\ (s.kind = "context" /\ HostFailed(s)) =>
              s.resp.error \in {"Session is not active", "Thread is not paused",
                                "Unknown frame id", "Unknown variablesReference"}
        /\ (s.kind = "breakpoint" /\ s.line # <<>> /\ s.line[1] < 0 /\ s.file # Missing) =>
              s.resp = ErrorResponse(500, IllegalLineMsg)

\* C20 witness: a GET /debug/context was answered 500 because the debuggee
\* was resumed between its scopes and its variables request.
C20_Witness ==
    \E s \in InFlight :
        /\ s.kind = "context"
        /\ Len(s.dap) = 3
        /\ s.dap[3].state = "failed"
        /\ s.sent = 1
        /\ s.resp.status = 500
        /\ s.resp.error = "Thread is not paused"

----------------------------------------------------------------------------
(* Claims about captures that race with the debuggee                       *)

\* The stack trace and the scopes are those of one stop: the scopes are what
\* that stop holds for the top frame of that stack.
FromOneStop(frames, scopes) ==
    \E i \in PauseIds :
        /\ PauseStates[i].frames = frames
        /\ frames # <<>>
        /\ PauseStates[i].scopes[frames[1].id] = scopes

\* C21: the frame id of a scopes request and the variablesReference of a
\* variables request are used in the stop they were obtained in: the scopes
\* a capture holds are those of the top frame of the stop its stack trace
\* came from, and the variables of a snapshot are those of the first of
\* these scopes in that stop.
C21_IdsFromSamePause ==
    \A s \in InFlight :
        /\ s.scopesResp # <<>> => FromOneStop(s.stackResp, s.scopesResp)
        /\ (s.kind = "context" /\ s.resp.status = 200) =>
              \E i \in PauseIds :
                  /\ PauseStates[i].frames = s.resp.body.stack.stackFrames
                  /\ PauseStates[i].scopes[s.stackResp[1].id] = s.resp.body.scopes.scopes
                  /\ PauseStates[i].variables[s.scopesResp[1].variablesReference]
                        = s.resp.body.variables.variables

\* The errors with which the session rejects a request of a capture.
SessionErrors(command) ==
    {"Session is not active", "Thread is not paused"}
        \cup (CASE command = "stackTrace" -> {"Unknown thread"}
                [] command = "scopes"     -> {"Unknown frame id"}
                [] command = "variables"  -> {"Unknown variablesReference"}
                [] OTHER                  -> {})

\* C22: when one of the three DAP requests of a GET /debug/context fails,
\* it is the last request of the capture, the response is 500 with an error
\* of the session for that request and without a snapshot.
C22_FailedRequestEndsCapture ==
    \A s \in InFlight : \A i \in 1..Len(s.dap) :
        (s.kind = "context" /\ s.dap[i].state = "failed") =>
            /\ i = Len(s.dap)
            /\ s.pc = "done"
            /\ s.resp.status = 500
            /\ s.resp.error \in SessionErrors(s.dap[i].command)
            /\ s.resp.body = NoBody
            /\ s.sent = 1

\* C22 witness: the debuggee moved on between the stackTrace and the scopes
\* answer, and the frame id of the first stop was unknown in the next.
C22_Witness ==
    \E s \in InFlight :
        /\ s.kind = "context"
        /\ Len(s.dap) = 2
        /\ s.dap[2].state = "failed"
        /\ s.resp.error = "Unknown frame id"

----------------------------------------------------------------------------
(* Claims about the descriptor file and shutdown                           *)

\* C23: after writePortInfo(p) has succeeded, the discovery script reading
\* the descriptor file obtains port p.
C23_DescriptorRoundTrip ==
    (descriptorWrites > 0 /\ descriptor = PortInfo(currentPort)) =>
        DiscoverPort(descriptor) = <<currentPort>>

\* C24: deactivate never throws, whether it is called once, twice or before
\* any listener was stored; closing the listener again throws nothing, and a
\* failed removal of the descriptor file is logged, the file staying behind.
C24_DeactivateNeverThrows ==
    /\ ~raised
    /\ closeCalls <= deactivations
    /\ (serverInstance = 0 => closeCalls = 0)
    /\ (deleteFailed => deactivations > 0)

\* C24 witness: deactivate ran twice on a stored listener, and a removal
\* failed.
C24_Witness ==
    /\ deactivations = 2
    /\ closeCalls = 2
    /\ deleteFailed
    /\ descriptor # NoFile

\* C25: once startup and deactivate have both finished and no removal of the
\* descriptor file failed, no descriptor file exists and no listener of this
\* instance is open.
C25_NothingLeftAfterShutdown ==
    (startPc = "done" /\ deactivations > 0 /\ ~deleteFailed) =>
        (descriptor = NoFile /\ listening = {})

\* C29: after a startup that bound a port, a descriptor file that exists
\* holds the port and the process id of this instance, whatever was there
\* before.
C29_DescriptorIsOurs ==
    (startPc = "done" /\ serverInstance # 0 /\ descriptor # NoFile) =>
        descriptor = PortInfo(currentPort)

\* C29, amended: once the write of the descriptor has succeeded, a descriptor
\* file that exists holds the bound port and the process id of this instance,
\* whatever was there before; it was written at most once.
C29_WrittenDescriptorIsOurs ==
    /\ descriptorWrites <= 1
    /\ (overwrote => descriptorWrites = 1)
    /\ (descriptorWrites > 0 /\ descriptor # NoFile) =>
            /\ descriptor = PortInfo(currentPort)
            /\ descriptor.pid = MyPid
            /\ descriptor.port = serverInstance

\* C29 witness: the write replaced a descriptor left by another process.
C29_Witness ==
    /\ overwrote
    /\ descriptor = PortInfo(PORTS[2])
    /\ descriptor # StaleDescriptor

\* C30: the operator error has been shown exactly when startup has ended
\* without a listener, which is when every candidate was tried and failed;
\* it is shown at most once, failures before a success show nothing, and no
\* candidate is tried a second time.
C30_ErrorOnlyAfterExhaustion ==
    /\ errorShown <= 1
    /\ (errorShown = 1) <=> (startPc = "done" /\ serverInstance = 0)
    /\ (errorShown = 1) => (FreeIdx = {} /\ attempts = PORTS)
    /\ attempts = SubSeq(PORTS, 1, Len(attempts))
    /\ (startPc = "done" /\ serverInstance # 0) =>
            \A i \in 1..(Len(attempts) - 1) : attempts[i] \in occupied

\* C30 witness: three candidates failed before the fourth was bound, and
\* nothing was shown.
C30_Witness ==
    /\ startPc = "done"
    /\ Len(attempts) = 4
    /\ serverInstance = PORTS[4]
    /\ errorShown = 0

----------------------------------------------------------------------------
(* Claims about the debug listeners                                        *)

\* C26: a step in which a listener is notified (a session started or ended,
\* a custom event) leaves the listener, port, descriptor, the host's session,
\* stop and breakpoints and the requests in flight (their commands, DAP
\* requests, breakpoint calls, responses) as they are; the line appended is
\* the one of the event; and a custom event other than 'stopped' changes
\* nothing at all.  No other step changes the listeners' log.
C26_ListenersOnlyLog ==
    [][/\ listenerLog' # listenerLog => UNCHANGED <<serverVars, hostVars, slots>>
       /\ \A s \in Sessions :
              /\ SessionStartedEvent(s) =>
                    /\ listenerLog' = "Debug session started: " \o s.name
                    /\ UNCHANGED <<serverVars, hostVars, slots>>
              /\ SessionTerminatedEvent(s) =>
                    /\ listenerLog' = "Debug session ended: " \o s.name
                    /\ UNCHANGED <<serverVars, hostVars, slots>>
       /\ \A kind \in CustomKinds, reason \in CustomReasons :
              CustomEvent(kind, reason) =>
                 IF kind = "stopped"
                 THEN /\ listenerLog' = "Debugger stopped: " \o
                            (IF reason \in {Missing, ""} THEN "unknown" ELSE reason)
                      /\ UNCHANGED <<serverVars, hostVars, slots>>
                 ELSE UNCHANGED vars]_vars

\* C26 witness: a 'stopped' custom event was logged while a capture of the
\* bound server was waiting for the host.
C26_Witness ==
    /\ listenerLog = "Debugger stopped: breakpoint"
    /\ serverInstance # 0
    /\ \E s \in InFlight : s.pc = "await_scopes"

----------------------------------------------------------------------------
(* Claims about the read endpoints and the requests as a whole             *)

\* What GET /debug/breakpoints is to report for a breakpoint of the host.
Reported(bp) ==
    IF bp.type = "source"
    THEN [type |-> "source", file |-> bp.file, line |-> bp.line + 1,
          enabled |-> bp.enabled]
    ELSE [type |-> "other", enabled |-> bp.enabled]

\* C27: GET /debug/breakpoints answers 200 with one entry per breakpoint the
\* host held when the request ran, in the host's order, and with count the
\* number of entries; GET /debug/status reports that number as breakpoints;
\* and as long as the host's list has not changed since, the answer
\* describes the host's current list.
C27_ListIsTheHostsList ==
    \A g \in InFlight :
        /\ g.kind = "breakpoints" =>
              /\ g.resp.status = 200
              /\ g.resp.body.count = Len(g.seen)
              /\ g.resp.body.breakpoints = [k \in 1..Len(g.seen) |-> Reported(g.seen[k])]
              /\ g.fresh => g.seen = breakpoints
        /\ g.kind = "status" =>
              /\ g.resp.status = 200
              /\ g.resp.body.breakpoints = Len(g.seen)
              /\ g.fresh => g.resp.body.breakpoints = Len(breakpoints)

\* C27 witness: the list was read after a set request and an addition from
\* the editor, and reports both.
C27_Witness ==
    \E g \in InFlight :
        /\ g.kind = "breakpoints"
        /\ g.fresh
        /\ Len(breakpoints) = 2
        /\ breakpoints[1].type = "source"
        /\ breakpoints[1].origin # NoOrigin
        /\ breakpoints[2].type = "function"
        /\ g.resp.body.count = 2

\* C28: a request has made at most one mutating call on the host (an executed
\* command, an addBreakpoints, a removeBreakpoints or an evaluate), of the
\* kind of its endpoint, and a breakpoint request has changed the host's
\* list by at most one breakpoint, and only through such a call.
C28_OneMutationPerRequest ==
    \A s \in InFlight :
        /\ Len(s.commands) + Len(s.bpCalls) + Len(s.evals) <= 1
        /\ s.commands # <<>> => s.kind \in {"step", "control"}
        /\ s.bpCalls # <<>> => s.kind = "breakpoint"
        /\ s.evals # <<>> => s.kind = "evaluate"
        /\ s.bpDelta <= 1
        /\ s.bpDelta = 1 => Len(s.bpCalls) = 1

\* C28 witness: a set request added the second breakpoint of the host's list
\* with its one call, while a debug session was active.
C28_Witness ==
    \E s \in InFlight :
        /\ s.kind = "breakpoint"
        /\ s.bpDelta = 1
        /\ Len(s.bpCalls) = 1
        /\ Len(breakpoints) = 2
        /\ session # NoSession

----------------------------------------------------------------------------
(* Claims about startup and the descriptor, continued                      *)

\* C31: this instance holds at most one open listener, and when it holds one
\* currentPort and serverInstance name it, also when a call after the bind
\* threw inside the try block.
C31_AtMostOneListener ==
    /\ Cardinality(listening) <= 1
    /\ listening # {} => listening = {currentPort} /\ serverInstance = currentPort

\* The descriptor file exists and was written by this instance.
OwnDescriptor == descriptor # NoFile /\ descriptor.pid = MyPid

\* C32: whenever the descriptor file written by this instance exists, its
\* port is the port of the open listener and the port every GET /health has
\* reported, and it is a port whose bind succeeded.
C32_DescriptorMatchesListener ==
    OwnDescriptor =>
        /\ descriptor.port = currentPort
        /\ listening = {descriptor.port}
        /\ descriptor.port \notin occupied
        /\ \A s \in InFlight : s.kind = "health" => s.resp.body.port = descriptor.port

\* C32, amended: whenever the descriptor file written by this instance
\* exists, its port is the one port this instance bound, which is the port of
\* the listener as long as deactivate has not closed it, and the port every
\* GET /health has reported; it was written once, for a port whose bind
\* succeeded.
C32_DescriptorMatchesBoundPort ==
    OwnDescriptor =>
        /\ descriptor.port = currentPort
        /\ descriptor.port = serverInstance
        /\ descriptor.port \notin occupied
        /\ descriptor.port = attempts[Len(attempts)]
        /\ descriptorWrites = 1
        /\ closeCalls = 0 => listening = {descriptor.port}
        /\ closeCalls > 0 => listening = {}
        /\ \A s \in InFlight : s.kind = "health" => s.resp.body.port = descriptor.port

\* C32 witness: the third candidate was bound and recorded, and a health
\* check has reported it.
C32_Witness ==
    /\ OwnDescriptor
    /\ descriptor.port = PORTS[3]
    /\ listening = {PORTS[3]}
    /\ \E s \in InFlight : s.kind = "health" /\ s.resp.body.port = PORTS[3]

\* C33: once a port is bound startup is over, whether the descriptor could be
\* written or not: the listener stays bound until deactivate closes it, the
\* routes are registered, the bound port is the last one tried and no
\* operator error is shown; when the write failed no descriptor of this
\* instance exists.
C33_WriteFailureDoesNotFailStartup ==
    /\ serverInstance # 0 =>
          /\ startPc = "done"
          /\ routesRegistered
          /\ errorShown = 0
          /\ attempts[Len(attempts)] = serverInstance
          /\ closeCalls = 0 => listening = {serverInstance}
    /\ (serverInstance # 0 /\ descriptorWrites = 0) => ~OwnDescriptor
    /\ \A s \in InFlight : s.kind = "health" => s.resp.status = 200

\* C33 witness: the write failed on the second candidate, no descriptor file
\* exists, and the server has answered a health check on that port.
C33_Witness ==
    /\ serverInstance = PORTS[2]
    /\ descriptorWrites = 0
    /\ descriptor = NoFile
    /\ listening = {PORTS[2]}
    /\ attempts = <<PORTS[1], PORTS[2]>>
    /\ \E s \in InFlight : s.kind = "health" /\ s.resp.body.port = PORTS[2]

----------------------------------------------------------------------------
(* Claims about the step and breakpoint handlers, continued                *)

\* C34: a POST /debug/step without an action field is handled as action
\* "over": it executes workbench.action.debug.stepOver once and nothing else,
\* is never answered 400, and when the command has resolved it is answered
\* 200 with action "step_over"; and a step request is answered 400 only when
\* its action field is present and none of over, into, out.
C34_MissingStepActionIsOver ==
    \A s \in InFlight :
        s.kind = "step" =>
            /\ s.input = Missing =>
                  /\ s.action = "over"
                  /\ s.commands = <<"workbench.action.debug.stepOver">>
                  /\ s.resp.status \in {0, 200, 500}
                  /\ s.resp.status = 200 =>
                        /\ s.resp.body.action = "step_over"
                        /\ s.resp.body.success
                  /\ s.resp.status = 500 => s.resp.error = CommandFailedMsg
            /\ s.resp.status = 400 =>
                  (s.input # Missing /\ s.input \notin {"over", "into", "out"})

\* C34 witness: a step without action was answered 200 step_over.
C34_Witness ==
    \E s \in InFlight :
        /\ s.kind = "step"
        /\ s.input = Missing
        /\ s.resp.status = 200
        /\ s.resp.body.action = "step_over"
        /\ s.commands = <<"workbench.action.debug.stepOver">>

\* C35: a POST /debug/breakpoint with line 0 is answered 400 without a call
\* on the host and without a change of the breakpoint list; and every request
\* that passes the validation of file and line has a zero-based line
\* line - 1 >= 0, so that no location with a negative line is constructed.
C35_ValidatedLineIsPositive ==
    \A s \in InFlight :
        s.kind = "breakpoint" =>
            /\ s.line = <<0>> =>
                  /\ s.resp.status = 400
                  /\ s.bpCalls = <<>>
                  /\ ~s.bpChanged
            /\ (~NoFileGiven(s.file) /\ ~NoLineGiven(s.line)) =>
                  /\ ZeroBased(s.line[1]) >= 0
                  /\ s.resp.error # IllegalLineMsg

\* C36: once a remove of file f, line n >= 1 has been answered 200, and as
\* long as the host's list is as the request left it, the host holds no
\* source breakpoint at (f, n), also when one had been set there before.
C36_RemoveUndoesSet ==
    \A s \in InFlight :
        (s.kind = "breakpoint" /\ s.action = "remove" /\ s.resp.status = 200 /\ s.fresh) =>
            ~\E k \in 1..Len(breakpoints) :
                /\ breakpoints[k].type = "source"
                /\ breakpoints[k].origin = [file |-> s.file, line |-> s.line[1]]

----------------------------------------------------------------------------
(* Claims about the read endpoints, continued                              *)

ReadKinds == {"health", "status", "breakpoints", "context"}

\* A step of the handler of a read endpoint: the request arrives, or an
\* answer of the host to its capture arrives.
ReadStep ==
    \/ HealthRequest
    \/ StatusRequest
    \/ BreakpointsRequest
    \/ ContextRequest
    \/ \E s \in InFlight : StackTraceReturn(s)
    \/ \E s \in InFlight : ScopesReturn(s)
    \/ \E s \in InFlight : VariablesReturn(s)

\* What a read request has done so far.
ReadOnly ==
    \A s \in InFlight :
        s.kind \in ReadKinds =>
            /\ s.commands = <<>>
            /\ s.bpCalls = <<>>
            /\ s.evals = <<>>
            /\ s.timers = 0
            /\ ~s.bpChanged
            /\ \A i \in 1..Len(s.dap) :
                  s.dap[i].command \in {"stackTrace", "scopes", "variables"}
            /\ s.kind \in {"health", "status", "breakpoints"} => s.dap = <<>>
            /\ s.kind \in {"health", "status"} =>
                  /\ s.resp.status = 200
                  /\ s.resp.body.hasActiveSession = ~s.sessionless

\* C37: GET /health, /debug/status, /debug/breakpoints and /debug/context
\* execute no command, call neither addBreakpoints nor removeBreakpoints and
\* send no evaluate request; /health and /debug/status send no DAP request
\* and report hasActiveSession true exactly when a session was active as they
\* ran; and no step of their handlers changes the host's session, stop or
\* breakpoints, the descriptor file or any other server state.
C37_ReadEndpointsChangeNothing ==
    /\ []ReadOnly
    /\ [][ReadStep => UNCHANGED <<serverVars, hostVars>>]_vars

\* C37 witness: with a session active and a breakpoint in the host's list, a
\* capture has sent its three requests and returned its snapshot.
C37_Witness ==
    /\ session # NoSession
    /\ Len(breakpoints) = 1
    /\ descriptor = PortInfo(currentPort)
    /\ \E s \in InFlight :
          /\ s.kind = "context"
          /\ s.resp.status = 200
          /\ Len(s.dap) = 3

\* C38: a POST /debug/step with a valid action does not look at the session:
\* it executes its one step command with or without a session, and with no
\* session active from its arrival to the command's resolution it is answered
\* 200.  A step answered 200 has scheduled exactly one follow-up capture; a
\* step whose command failed is answered 500 with the command's message and
\* has scheduled none and sent no DAP request; no step schedules more than
\* one, and none before its command has settled.
C38_StepIgnoresSessionOneFollowUp ==
    \A s \in InFlight :
        (s.kind = "step" /\ s.action \in StepActions) =>
            /\ s.commands = <<StepCommand(s.action)>>
            /\ s.timers \in {0, 1}
            /\ s.pc = "await_command" => s.timers = 0 /\ s.sent = 0
            /\ s.pc # "await_command" => s.resp.status \in {200, 500}
            /\ s.resp.status = 200 => s.timers = 1 /\ s.resp = StepAck(s.action)
            /\ s.resp.status = 500 =>
                  /\ s.timers = 0
                  /\ s.dap = <<>>
                  /\ s.pc = "done"
                  /\ s.resp = ErrorResponse(500, CommandFailedMsg)
            /\ (s.sessionless /\ s.timers = 1) => s.resp.status = 200

\* C38 witness: a step that arrived and resolved with no session active was
\* answered 200 with its one follow-up capture scheduled and not yet begun.
C38_Witness ==
    \E s \in InFlight :
        /\ s.kind = "step"
        /\ s.sessionless
        /\ s.pc = "timer"
        /\ s.timers = 1
        /\ s.commands = <<StepCommand(s.action)>>
        /\ s.resp.status = 200

====
